---- MODULE Spec2Model ----
(***************************************************************************)
(* Stores of blocks that embed each other by reference (Ref / Unref        *)
(* content), their store transactions and the end-of-transaction cleanup.  *)
(*                                                                         *)
(* Two stores (peers) each own a root block "@R" and the regular blocks    *)
(* created with an explicit id; every block is of block type 'map'.  A     *)
(* peer changes its blocks inside store transactions and the update that   *)
(* the cleanup of a store transaction emits travels to the other peer.     *)
(***************************************************************************)
EXTENDS Integers, Sequences, FiniteSets, TLC

\* ---------------------------------------------------------------- bounds
\* Regular blocks created with an explicit id on both peers: ids 1..NShared.
NShared == 2
\* Operations (set, delete) that the users of the two peers issue in all.
MaxOps == 2
\* transact calls nested inside each other.
MaxDepth == 2

\* ------------------------------------------------------------- universes
Stores == {1, 2}
\* Client ids: store s starts with client id s; 3 and 4 are the ids that
\* generateNewClientId hands out when a collision is detected; 5 is the
\* client of an earlier session that wrote the persisted content.
Clients == 1..5
SetupClient == 5
Keys == {"a", "b"}
RootId == 0
SharedIds == 1..NShared

NoBlock == -1          \* null block / '' block id
PrelimType == -2       \* _type of a Ref built from a type that has no block yet
Undefined == -1        \* JavaScript undefined in a numeric field
NullId == <<0, 0>>     \* null item id (client ids start at 1)
NullRef == <<NoBlock, 0, 0>>   \* null item reference <<block, client, clock>>
NoKey == ""            \* parentSub = null
RootType == ""         \* share name of the root type
UnrefsType == "_unrefs"
NoType == "-"          \* parent of a type that no item embeds (type._item === null)

ChainKeys == {<<RootType, k>> : k \in Keys} \cup {<<UnrefsType, NoKey>>}

VARIABLES store, net, depth, last, hist, probe
vars == <<store, net, depth, last, hist, probe>>

\* ------------------------------------------------------------- utilities
Max(S) == CHOOSE x \in S : \A y \in S : y <= x
Min(S) == CHOOSE x \in S : \A y \in S : x <= y
Last(q) == q[Len(q)]
InSeq(x, q) == \E i \in 1..Len(q) : q[i] = x
Range(q) == {q[i] : i \in 1..Len(q)}
Without(q, x) == SelectSeq(q, LAMBDA y : y # x)
AddOnce(q, x) == IF InSeq(x, q) THEN q ELSE Append(q, x)
InsertAt(q, i, x) == SubSeq(q, 1, i) \o <<x>> \o SubSeq(q, i + 1, Len(q))
IndexOf(q, x) == IF InSeq(x, q) THEN Min({i \in 1..Len(q) : q[i] = x}) ELSE 0
\* The elements of a finite set of integers or tuples, in ascending order.
RECURSIVE SortedIds(_)
SortedIds(S) ==
  IF S = {} THEN <<>>
  ELSE LET m == CHOOSE x \in S : \A y \in S :
                    x[1] < y[1] \/ (x[1] = y[1] /\ x[2] <= y[2])
       IN <<m>> \o SortedIds(S \ {m})
RECURSIVE SortedInts(_)
SortedInts(S) == IF S = {} THEN <<>> ELSE <<Min(S)>> \o SortedInts(S \ {Min(S)})
KeySeq == <<"a", "b">>

\* ------------------------------------------------------------ data model
\* Content variants; every variant carries all fields so that contents compare.
ContentAny(v) ==
  [kind |-> "any", val |-> v, blockId |-> NoBlock, _block |-> NoBlock,
   _type |-> NoBlock, client |-> Undefined, clock |-> Undefined]
ContentDeleted ==
  [kind |-> "deleted", val |-> 0, blockId |-> NoBlock, _block |-> NoBlock,
   _type |-> NoBlock, client |-> Undefined, clock |-> Undefined]

Field(opts, f) == IF f \in DOMAIN opts THEN opts[f] ELSE Undefined

ContentBlockUnref(opts) ==
  [kind |-> "unref", val |-> 0, blockId |-> opts.blockId, _block |-> NoBlock,
   _type |-> NoBlock, client |-> Field(opts, "client"), clock |-> Field(opts, "clock")]

\* new ContentBlockRef(opt) for opt = {blockId, blockType} (decoder, copy).
ContentBlockRefFromOpts(blockId) ==
  [kind |-> "ref", val |-> 0, blockId |-> blockId, _block |-> NoBlock,
   _type |-> NoBlock, client |-> Undefined, clock |-> Undefined]
\* new ContentBlockRef(type) for the root type of block b, or for a type
\* that has no block yet (b = NoBlock).
ContentBlockRefFromType(b) ==
  [kind |-> "ref", val |-> 0, blockId |-> b, _block |-> b,
   _type |-> IF b = NoBlock THEN PrelimType ELSE b,
   client |-> Undefined, clock |-> Undefined]
\* A constructor that accepts every type of a block.
RefFromAnyType(b, type) == [ok |-> TRUE, content |-> ContentBlockRefFromType(b)]

\* new ContentBlockRef(type) for the type with share name `type` of block
\* b: only the root type of a block can be embedded; ok = FALSE when the
\* constructor throws.
RefFromBlockType(b, type) ==
  IF b # NoBlock /\ type # RootType
  THEN [ok |-> FALSE, content |-> ContentBlockRefFromOpts(NoBlock)]
  ELSE [ok |-> TRUE, content |-> ContentBlockRefFromType(b)]

\* new ContentBlockRef(block) for a NanoBlock.
ContentBlockRefFromBlock(b) ==
  [kind |-> "ref", val |-> 0, blockId |-> b, _block |-> b, _type |-> b,
   client |-> Undefined, clock |-> Undefined]

NewItem(id, parent, sub, origin, content) ==
  [id |-> id, parent |-> parent, parentSub |-> sub, origin |-> origin,
   content |-> content, deleted |-> FALSE, keep |-> FALSE]

NanoBlock(isRoot, clientID) ==
  [isRoot |-> isRoot, clientID |-> clientID, blockType |-> "map",
   structs |-> [c \in Clients |-> <<>>],
   chains |-> [ck \in ChainKeys |-> <<>>],
   _referrer |-> NullRef, _prevReferrer |-> NullRef, _transaction |-> 0,
   _rootBlock |-> NoBlock]

Transaction(b, blk, origin, local) ==
  [block |-> b, origin |-> origin, local |-> local,
   beforeState |-> [c \in Clients |-> Len(blk.structs[c])],
   afterState |-> [c \in Clients |-> 0],
   deleteSet |-> {}, changed |-> <<>>]

\* new StoreTransaction(store, origin, local).  blockUnrefsAdded is the set
\* that ContentBlockUnref.integrate adds to.
StoreTransaction(origin, local) ==
  [origin |-> origin, local |-> local, blockTransactions |-> <<>>,
   blockRefsAdded |-> <<>>, blockRefsRemoved |-> <<>>, blockUnrefsAdded |-> <<>>]

\* store.createBlock(type, id) with an explicit id.
CreateBlockWithId(st, id) ==
  [st EXCEPT !.blocks = (id :> NanoBlock(FALSE, st.clientID)) @@ @]

GetOrCreateBlock(st, id) ==
  IF id \in DOMAIN st.blocks THEN st ELSE CreateBlockWithId(st, id)

\* An id from generateNewBlockId (uuidv4): unique across both stores.
FreshBlockId(st) == 10 * st.sid + st.nfresh + 1

RECURSIVE CreateShared(_, _)
CreateShared(st, n) ==
  IF n = 0 THEN st ELSE CreateBlockWithId(CreateShared(st, n - 1), n)

NanoStore(s) ==
  CreateShared(
    [sid |-> s, clientID |-> s,
     blocks |-> (RootId :> NanoBlock(TRUE, s)),
     cur |-> 0, queue |-> <<>>, nfresh |-> 0, ngen |-> 0, nops |-> 0, ncl |-> 0, swaps |-> <<>>,
     ctl |-> "ok", pending |-> FALSE, stack |-> <<>>, emit |-> <<>>,
     log |-> <<>>, obs |-> [at |-> "none", what |-> "none"],
     tracing |-> {}, trace |-> <<>>],
    NShared)

GetItem(st, r) == st.blocks[r[1]].structs[r[2]][r[3] + 1]
PutItem(st, r, it) == [st EXCEPT !.blocks[r[1]].structs[r[2]][r[3] + 1] = it]
GetState(blk, c) == Len(blk.structs[c])
MapHead(blk, key) ==
  LET ch == blk.chains[<<RootType, key>>] IN IF ch = <<>> THEN NullId ELSE Last(ch)


Ref(b, id) == <<b, id[1], id[2]>>
Countable(it) == it.content.kind # "deleted"

\* ------------------------------------------------- per-block transactions
\* transact(block, f) on a block of a store, inside the active store
\* transaction: the block gets its Transaction on first use, with the origin
\* and the local flag of the store transaction.
EnsureBlockTx(st, b) ==
  IF st.blocks[b]._transaction # 0 THEN st
  ELSE LET tx == st.queue[st.cur]
           n == Len(tx.blockTransactions) + 1
       IN [st EXCEPT !.queue[st.cur].blockTransactions =
                         Append(@, Transaction(b, st.blocks[b], tx.origin, tx.local)),
                     !.blocks[b]._transaction = n]

TxLocal(st, b) ==
  st.queue[st.cur].blockTransactions[st.blocks[b]._transaction].local

AddToDeleteSet(st, r) ==
  [st EXCEPT !.queue[st.cur].blockTransactions[st.blocks[r[1]]._transaction].deleteSet =
               @ \cup {<<r[2], r[3]>>}]

\* addChangedTypeToTransaction(transaction, type, parentSub) for a type that
\* no item embeds: the type is added to transaction.changed.
AddChangedTypeToTransaction(st, b, type) ==
  [st EXCEPT !.queue[st.cur].blockTransactions[st.blocks[b]._transaction].changed =
               AddOnce(@, type)]

\* An event that the store or one of its blocks emits, or a step of the
\* cleanup, as the listeners see it: i is the position of the store
\* transaction in the cleanup queue.
Ev(e, i, b, t) == [e |-> e, i |-> i, b |-> b, t |-> t]
Log(st, e, i, b, t) == [st EXCEPT !.log = Append(@, Ev(e, i, b, t))]

\* --------------------------------------------------------- referrer links
ClearCache(st, r) ==
  IF GetItem(st, r).content.kind = "ref"
  THEN [st EXCEPT !.blocks[r[1]].structs[r[2]][r[3] + 1].content._block = NoBlock,
                  !.blocks[r[1]].structs[r[2]][r[3] + 1].content._type = NoBlock]
  ELSE st

SetCache(st, r, b) ==
  [st EXCEPT !.blocks[r[1]].structs[r[2]][r[3] + 1].content._block = b,
             !.blocks[r[1]].structs[r[2]][r[3] + 1].content._type = b]

\* updateBlockReferrer(block, refItem, updatePrev = true); refItem is given
\* by the item of the Ref content, NullRef for null.
\* updateBlockReferrer that leaves the cache of the old referrer alone.
UpdateBlockReferrerKeepsCache(st, b, r) ==
  LET old == st.blocks[b]._referrer
      s1 == IF r = NullRef /\ old # NullRef
            THEN [st EXCEPT !.blocks[b]._prevReferrer = old, !.blocks[b]._referrer = NullRef]
            ELSE st
      old1 == s1.blocks[b]._referrer
      s2 == IF r # NullRef
            THEN LET s == IF old1 # NullRef /\ old1 # r
                          THEN [s1 EXCEPT !.blocks[b]._prevReferrer = old1]
                          ELSE s1
                 IN [s EXCEPT !.blocks[b]._referrer = r]
            ELSE s1
  IN s2

UpdateBlockReferrer(st, b, r) ==
  LET old == st.blocks[b]._referrer
      s1 == IF r = NullRef /\ old # NullRef
            THEN [ClearCache(st, old) EXCEPT !.blocks[b]._prevReferrer = old,
                                             !.blocks[b]._referrer = NullRef]
            ELSE st
      old1 == s1.blocks[b]._referrer
      s2 == IF r # NullRef
            THEN LET s == IF old1 # NullRef /\ old1 # r
                          THEN [ClearCache(s1, old1) EXCEPT !.blocks[b]._prevReferrer = old1]
                          ELSE s1
                 IN [s EXCEPT !.blocks[b]._referrer = r]
            ELSE s1
  IN s2

\* --------------------------------------------------------------- cloning
\* cloneBlock(store, blockId): the copy of the block's root map as a type
\* that has no block yet (createRef = true); ok = FALSE when the call throws
\* ('Block not found', or the call stack is exhausted because the blocks
\* reachable through live Refs form a cycle).
CloneEmpty(st, id, fuel) ==
  [ok |-> TRUE, t |-> [k \in Keys |-> [kind |-> "none"]]]

RECURSIVE CloneBlock(_, _, _)
CloneBlock(st, id, fuel) ==
  IF fuel = 0 \/ id \notin DOMAIN st.blocks THEN [ok |-> FALSE, t |-> <<>>]
  ELSE LET blk == st.blocks[id]
           sub(k) ==
             LET h == MapHead(blk, k) IN
             IF h = NullId THEN [ok |-> TRUE, e |-> [kind |-> "none"]]
             ELSE LET it == blk.structs[h[1]][h[2] + 1] IN
                  IF it.deleted \/ ~Countable(it)
                  THEN [ok |-> TRUE, e |-> [kind |-> "none"]]
                  ELSE IF it.content.kind = "ref"
                  THEN LET c == CloneBlock(st, it.content.blockId, fuel - 1)
                       IN [ok |-> c.ok, e |-> [kind |-> "prelim", t |-> c.t]]
                  ELSE [ok |-> TRUE, e |-> [kind |-> "any", val |-> it.content.val]]
       IN [ok |-> \A k \in Keys : sub(k).ok, t |-> [k \in Keys |-> sub(k).e]]

CallDepth(st) == Cardinality(DOMAIN st.blocks) + 1

\* ------------------------------------------------- items: integrate, delete
\* The position (number of items to its left) the base CRDT gives an item in
\* the chain of its parent and parentSub; right origins are always null.
RECURSIVE YataScan(_, _, _, _, _, _, _)
YataScan(blk, ch, item, i, left, conf, before) ==
  IF i > Len(ch) THEN left
  ELSE LET o == blk.structs[ch[i][1]][ch[i][2] + 1]
           before2 == before \cup {ch[i]}
           conf2 == conf \cup {ch[i]}
       IN IF o.origin = item.origin
          THEN IF o.id[1] < item.id[1]
               THEN YataScan(blk, ch, item, i + 1, i, {}, before2)
               ELSE left
          ELSE IF o.origin # NullId /\ o.origin \in before2
          THEN IF o.origin \notin conf2
               THEN YataScan(blk, ch, item, i + 1, i, {}, before2)
               ELSE YataScan(blk, ch, item, i + 1, left, conf2, before2)
          ELSE left

YataPos(blk, ch, item) ==
  LET p0 == IndexOf(ch, item.origin)
  IN YataScan(blk, ch, item, p0 + 1, p0, {}, {})

\* ------------------------------------------------------------ call stack
\* A handler that calls other state-changing code leaves the calls on the
\* stack of the store, in the order the code makes them; Run (below) takes
\* them off one at a time.
Push(st, frames) == [st EXCEPT !.stack = frames \o @]
Throw(st) == [st EXCEPT !.ctl = "threw"]

\* Item.delete(transaction), with ContentBlockRef.delete(transaction).
\* delete that records every deleted Ref in blockRefsRemoved.
RefDeleteAlwaysRemoved(st, r) ==
  LET ref == GetItem(st, r).content
      s1 == IF /\ ref._block # NoBlock
               /\ st.blocks[ref._block]._referrer # NullRef
               /\ st.blocks[ref._block]._referrer = r
            THEN UpdateBlockReferrer(st, ref._block, NullRef)
            ELSE st
      s2 == [s1 EXCEPT !.queue[s1.cur].blockRefsRemoved = AddOnce(@, r)]
  IN IF TxLocal(s2, r[1]) THEN Push(s2, <<[f |-> "addUnref", b |-> r[1], r |-> r]>>) ELSE s2

\* delete without the update of the target's referrer.
RefDeleteKeepsReferrer(st, r) ==
  LET tx == st.queue[st.cur]
      s2 == IF InSeq(r, tx.blockRefsAdded)
            THEN [st EXCEPT !.queue[st.cur].blockRefsAdded = Without(@, r)]
            ELSE [st EXCEPT !.queue[st.cur].blockRefsRemoved = AddOnce(@, r)]
  IN IF TxLocal(s2, r[1]) THEN Push(s2, <<[f |-> "addUnref", b |-> r[1], r |-> r]>>) ELSE s2

RefDelete(st, r) ==
  LET ref == GetItem(st, r).content
      s1 == IF /\ ref._block # NoBlock
               /\ st.blocks[ref._block]._referrer # NullRef
               /\ st.blocks[ref._block]._referrer = r
            THEN UpdateBlockReferrer(st, ref._block, NullRef)
            ELSE st
      tx == s1.queue[s1.cur]
      s2 == IF InSeq(r, tx.blockRefsAdded)
            THEN [s1 EXCEPT !.queue[s1.cur].blockRefsAdded = Without(@, r)]
            ELSE [s1 EXCEPT !.queue[s1.cur].blockRefsRemoved = AddOnce(@, r)]
  IN IF TxLocal(s2, r[1]) THEN Push(s2, <<[f |-> "addUnref", b |-> r[1], r |-> r]>>) ELSE s2

ItemDelete(st, r) ==
  LET it == GetItem(st, r) IN
  IF it.deleted THEN st
  ELSE LET s0 == AddToDeleteSet(PutItem(st, r, [it EXCEPT !.deleted = TRUE]), r)
           s1 == AddChangedTypeToTransaction(s0, r[1], it.parent)
       IN IF it.content.kind = "ref" THEN RefDelete(s1, r) ELSE s1

UnrefIntegrateNoKeep(st, r) ==
  [st EXCEPT !.queue[st.cur].blockUnrefsAdded = AddOnce(@, r)]

\* ContentBlockUnref.integrate(transaction, item)
UnrefIntegrate(st, r) ==
  [st EXCEPT !.blocks[r[1]].structs[r[2]][r[3] + 1].keep = TRUE,
             !.queue[st.cur].blockUnrefsAdded = AddOnce(@, r)]

\* ContentDeleted.integrate(transaction, item)
DeletedIntegrate(st, r) ==
  AddToDeleteSet([st EXCEPT !.blocks[r[1]].structs[r[2]][r[3] + 1].deleted = TRUE], r)

\* The calls that set every entry of a type with prelim content
\* (YMap._integrate), in key order.
RECURSIVE TypeIntegrate(_, _, _)
TypeIntegrate(b, tree, i) ==
  IF i > Len(KeySeq) THEN <<>>
  ELSE LET k == KeySeq[i]
           e == tree[k]
       IN (IF e.kind = "any"
           THEN <<[f |-> "mapSet", b |-> b, k |-> k, content |-> ContentAny(e.val),
                   prelim |-> <<>>]>>
           ELSE IF e.kind = "prelim"
           THEN <<[f |-> "mapSet", b |-> b, k |-> k,
                   content |-> ContentBlockRefFromType(NoBlock), prelim |-> e.t]>>
           ELSE <<>>) \o TypeIntegrate(b, tree, i + 1)

\* ContentBlockRef.integrate(transaction, item)
\* integrate with the referrer of the target written on remote integration too.
RefIntegrateEager(st, r, prelim) ==
  LET ref == GetItem(st, r).content
      s0 == [st EXCEPT !.queue[st.cur].blockRefsAdded = AddOnce(@, r)]
  IN IF TxLocal(st, r[1])
     THEN IF ref.blockId # NoBlock
          THEN LET s1 == GetOrCreateBlock(s0, ref.blockId) IN
               IF s1.blocks[ref.blockId]._referrer # NullRef
               THEN Push(s1, <<[f |-> "resolveRefConflict", r |-> r]>>)
               ELSE Push(UpdateBlockReferrer(SetCache(s1, r, ref.blockId), ref.blockId, r),
                         <<[f |-> "validateCircularRef", r |-> r]>>)
          ELSE IF ref._type # NoBlock /\ ref._block = NoBlock
          THEN LET n == FreshBlockId(s0)
                   s1 == [s0 EXCEPT !.blocks = (n :> NanoBlock(FALSE, s0.clientID)) @@ @,
                                    !.nfresh = @ + 1]
               IN Push(s1, TypeIntegrate(n, prelim, 1) \o <<[f |-> "blockCreated", r |-> r, n |-> n]>>)
          ELSE s0
     ELSE UpdateBlockReferrer(SetCache(GetOrCreateBlock(s0, ref.blockId), r, ref.blockId),
                              ref.blockId, r)

\* integrate that makes a local Ref the referrer of its target whether
\* or not the target has one.
RefIntegrateAdopts(st, r, prelim) ==
  LET ref == GetItem(st, r).content
      s0 == [st EXCEPT !.queue[st.cur].blockRefsAdded = AddOnce(@, r)]
  IN IF TxLocal(st, r[1])
     THEN IF ref.blockId # NoBlock
          THEN LET s1 == GetOrCreateBlock(s0, ref.blockId) IN
               Push(UpdateBlockReferrer(SetCache(s1, r, ref.blockId), ref.blockId, r),
                    <<[f |-> "validateCircularRef", r |-> r]>>)
          ELSE IF ref._type # NoBlock /\ ref._block = NoBlock
          THEN LET n == FreshBlockId(s0)
                   s1 == [s0 EXCEPT !.blocks = (n :> NanoBlock(FALSE, s0.clientID)) @@ @,
                                    !.nfresh = @ + 1]
               IN Push(s1, TypeIntegrate(n, prelim, 1) \o <<[f |-> "blockCreated", r |-> r, n |-> n]>>)
          ELSE s0
     ELSE SetCache(GetOrCreateBlock(s0, ref.blockId), r, ref.blockId)

RefIntegrate(st, r, prelim) ==
  LET ref == GetItem(st, r).content
      s0 == [st EXCEPT !.queue[st.cur].blockRefsAdded = AddOnce(@, r)]
  IN IF TxLocal(st, r[1])
     THEN IF ref.blockId # NoBlock
          THEN LET s1 == GetOrCreateBlock(s0, ref.blockId) IN
               IF s1.blocks[ref.blockId]._referrer # NullRef
               THEN Push(s1, <<[f |-> "resolveRefConflict", r |-> r]>>)
               ELSE Push(UpdateBlockReferrer(SetCache(s1, r, ref.blockId), ref.blockId, r),
                         <<[f |-> "validateCircularRef", r |-> r]>>)
          ELSE IF ref._type # NoBlock /\ ref._block = NoBlock
          THEN LET n == FreshBlockId(s0)
                   s1 == [s0 EXCEPT !.blocks = (n :> NanoBlock(FALSE, s0.clientID)) @@ @,
                                    !.nfresh = @ + 1]
               IN Push(s1, TypeIntegrate(n, prelim, 1) \o <<[f |-> "blockCreated", r |-> r, n |-> n]>>)
          ELSE s0
     ELSE SetCache(GetOrCreateBlock(s0, ref.blockId), r, ref.blockId)

\* ContentBlockRef.integrate, local, once store.createBlock(blockType,
\* undefined, this._type) has returned block n.
BlockCreated(st, r, n) ==
  LET s1 == [SetCache(st, r, n) EXCEPT !.blocks[r[1]].structs[r[2]][r[3] + 1].content.blockId = n]
  IN Push(UpdateBlockReferrer(s1, n, r), <<[f |-> "validateCircularRef", r |-> r]>>)

\* Item.integrate(transaction, 0) for an item of block b whose clock is the
\* next clock of its client; prelim is the content of the type a Ref was
\* built from when that type has no block yet.
ItemIntegrate(st, b, item, prelim) ==
  LET blk == st.blocks[b]
      ck == <<item.parent, item.parentSub>>
      ch == blk.chains[ck]
      pos == YataPos(blk, ch, item)
      left == IF pos = 0 THEN NullId ELSE ch[pos]
      r == Ref(b, item.id)
      s1 == [st EXCEPT !.blocks[b].structs[item.id[1]] = Append(@, item),
                       !.blocks[b].chains[ck] = InsertAt(ch, pos, item.id)]
  IN Push(s1, (IF item.parentSub # NoKey /\ pos = Len(ch) /\ left # NullId
               THEN <<[f |-> "delete", r |-> Ref(b, left)]>> ELSE <<>>)
              \o <<[f |-> "contentIntegrate", r |-> r, prelim |-> prelim],
                   [f |-> "integrated", r |-> r]>>)

ContentIntegrate(st, r, prelim) ==
  LET kind == GetItem(st, r).content.kind IN
  IF kind = "ref" THEN RefIntegrate(st, r, prelim)
  ELSE IF kind = "unref" THEN UnrefIntegrate(st, r)
  ELSE IF kind = "deleted" THEN DeletedIntegrate(st, r)
  ELSE st

\* Item.integrate, after content.integrate: an item of a map that is not
\* the current value of its key is deleted.
ItemIntegrated(st, r) ==
  LET it == GetItem(st, r)
      s1 == AddChangedTypeToTransaction(st, r[1], it.parent)
  IN IF it.parentSub # NoKey /\ Last(st.blocks[r[1]].chains[<<it.parent, it.parentSub>>]) # it.id
     THEN Push(s1, <<[f |-> "delete", r |-> r]>>)
     ELSE s1

\* typeMapSet: block.getType().set(key, value), the value given as content.
MapSet(st, b, key, content, prelim) ==
  LET s1 == EnsureBlockTx(st, b)
      blk == s1.blocks[b]
      id == <<blk.clientID, GetState(blk, blk.clientID)>>
  IN Push(s1, <<[f |-> "integrate", b |-> b,
                 item |-> NewItem(id, RootType, key, MapHead(blk, key), content),
                 prelim |-> prelim]>>)

\* block.getType().set(key, type) for the type with share name `type` of
\* block T: the content is built inside the transaction of the block.
MapSetType(st, b, key, T, type) ==
  LET s1 == EnsureBlockTx(st, b)
      ref == RefFromBlockType(T, type)
  IN IF ref.ok THEN MapSet(s1, b, key, ref.content, <<>>) ELSE Throw(s1)

\* typeMapDelete: block.getType().delete(key)
MapDelete(st, b, key) ==
  LET s1 == EnsureBlockTx(st, b)
      h == MapHead(s1.blocks[b], key)
  IN IF h = NullId THEN s1 ELSE Push(s1, <<[f |-> "delete", r |-> Ref(b, h)]>>)

\* addUnrefToBlock(block, ref): block.get('_unrefs', YArray).push([unref])
AddUnrefToBlock(st, b, r) ==
  LET ref == GetItem(st, r).content
      unref == ContentBlockUnref([blockId |-> ref.blockId,
                                  refClient |-> r[2], refClock |-> r[3]])
      s1 == EnsureBlockTx(st, b)
      blk == s1.blocks[b]
      ch == blk.chains[<<UnrefsType, NoKey>>]
      id == <<blk.clientID, GetState(blk, blk.clientID)>>
      origin == IF ch = <<>> THEN NullId ELSE Last(ch)
  IN Push(s1, <<[f |-> "integrate", b |-> b,
                 item |-> NewItem(id, UnrefsType, NoKey, origin, unref), prelim |-> <<>>]>>)

\* resolveRefConflict(store, ref)
ResolveRefConflict(st, r) ==
  LET it == GetItem(st, r) IN
  IF it.deleted THEN st
  ELSE IF it.parentSub # NoKey
  THEN Push(st, <<[f |-> "mapDelete", b |-> r[1], k |-> it.parentSub],
                  [f |-> "setCloned", r |-> r]>>)
  ELSE st

NothingCloned(st, r) == st

\* resolveRefConflict: const cloned = cloneBlock(store, ref.blockId);
\* map.set(key, cloned)
SetCloned(st, r) ==
  LET it == GetItem(st, r)
      cloned == CloneBlock(st, it.content.blockId, CallDepth(st))
  IN IF ~cloned.ok THEN Throw(st)
     ELSE Push(st, <<[f |-> "mapSet", b |-> r[1], k |-> it.parentSub,
                      content |-> ContentBlockRefFromType(NoBlock), prelim |-> cloned.t]>>)

\* Whether the walk n = item, n = n.block._referrer, ... meets a block with
\* the given id: "found", "end" when it reaches a block without referrer,
\* "loop" when it runs forever.
RECURSIVE WalkReferrers(_, _, _, _)
WalkReferrers(st, b, target, fuel) ==
  IF b = target THEN "found"
  ELSE IF fuel = 0 THEN "loop"
  ELSE LET up == st.blocks[b]._referrer
       IN IF up = NullRef THEN "end" ELSE WalkReferrers(st, up[1], target, fuel - 1)

SkipValidation(st, r) == st

\* validateCircularRef(item)
ValidateCircularRef(st, r) ==
  LET it == GetItem(st, r) IN
  IF it.deleted THEN st
  ELSE LET w == WalkReferrers(st, r[1], it.content.blockId, CallDepth(st))
       IN IF w = "loop" THEN [st EXCEPT !.ctl = "hung"]
          ELSE IF w = "end" THEN st
          ELSE IF it.parentSub # NoKey
          THEN Push(st, <<[f |-> "mapDelete", b |-> r[1], k |-> it.parentSub]>>)
          ELSE st

\* ------------------------------------------------------- update messages
\* What the encoder writes of a content, and what the decoder builds from it.
WriteContent(c) ==
  [kind |-> c.kind, val |-> c.val, blockId |-> c.blockId,
   client |-> c.client, clock |-> c.clock]

ReadContent(w) ==
  IF w.kind = "ref" THEN ContentBlockRefFromOpts(w.blockId)
  ELSE IF w.kind = "unref"
  THEN ContentBlockUnref([blockId |-> w.blockId, client |-> w.client, clock |-> w.clock])
  ELSE IF w.kind = "deleted" THEN ContentDeleted
  ELSE ContentAny(w.val)

WriteItem(it) ==
  [id |-> it.id, parent |-> it.parent, parentSub |-> it.parentSub,
   origin |-> it.origin, content |-> WriteContent(it.content)]

ReadItem(w) == NewItem(w.id, w.parent, w.parentSub, w.origin, ReadContent(w.content))

\* writeStructsFromTransaction: for each client, the items appended to
\* the block since the state vector sv.
WriteStructsFromTransaction(blk, sv) ==
  [c \in Clients |->
     [j \in 1..(Len(blk.structs[c]) - sv[c]) |-> WriteItem(blk.structs[c][sv[c] + j])]]

\* writeUpdateMessageFromTransaction: the structs, then the delete set.
WriteUpdate(blk, sv, ds) ==
  [from |-> sv, items |-> WriteStructsFromTransaction(blk, sv), ds |-> ds]

\* encodeStateAsUpdateV2(block)
EncodeStateAsUpdate(blk) ==
  WriteUpdate(blk, [c \in Clients |-> 0],
              UNION {{<<c, k>> : k \in {j \in 0..(Len(blk.structs[c]) - 1) :
                                             blk.structs[c][j + 1].deleted}} :
                     c \in Clients})

\* The structs of an update are integrated one at a time, a struct only
\* once the item it originates from is there, the highest client first; a
\* struct whose clock the block already holds is skipped.
IntegrateStructs(st, b, upd) ==
  LET blk == st.blocks[b]
      next(c) == GetState(blk, c) - upd.from[c] + 1
      ready == {c \in Clients :
                  /\ next(c) >= 1 /\ next(c) <= Len(upd.items[c])
                  /\ LET o == upd.items[c][next(c)].origin
                     IN o = NullId \/ o[2] < GetState(blk, o[1])}
  IN IF ready = {} THEN st
     ELSE LET c == Max(ready)
          IN Push(st, <<[f |-> "integrate", b |-> b,
                         item |-> ReadItem(upd.items[c][next(c)]), prelim |-> <<>>],
                        [f |-> "integrateStructs", b |-> b, upd |-> upd]>>)

\* readAndApplyDeleteSet: every item of the delete set that the block holds
\* is deleted.
ApplyDeleteSet(st, b, ids) ==
  IF ids = <<>> THEN st
  ELSE Push(st, (IF ids[1][2] < GetState(st.blocks[b], ids[1][1])
                 THEN <<[f |-> "delete", r |-> Ref(b, ids[1])]>> ELSE <<>>)
                \o <<[f |-> "applyDeleteSet", b |-> b, ids |-> Tail(ids)]>>)

\* ------------------------------------------------------ store transactions
\* transactInStore, up to the call of f.
AlwaysNewStoreTransaction(st, origin, local) ==
  [st EXCEPT !.queue = Append(@, StoreTransaction(origin, local)),
             !.cur = Len(st.queue) + 1]

TransactInStoreEnter(st, origin, local) ==
  IF st.cur # 0 THEN st
  ELSE [st EXCEPT !.queue = Append(@, StoreTransaction(origin, local)),
                  !.cur = Len(st.queue) + 1,
                  !.log = Append(@, Ev("beforeTransaction", Len(st.queue) + 1, NoBlock, origin))]

\* transact on a block of a store whose Transaction takes the local flag
\* of the call.
TransactBlockLocalAsAsked(st, b, origin, local) ==
  LET s1 == TransactInStoreEnter(st, origin, local) IN
  IF s1.blocks[b]._transaction # 0 THEN s1
  ELSE LET tx == s1.queue[s1.cur]
           n == Len(tx.blockTransactions) + 1
       IN [s1 EXCEPT !.queue[s1.cur].blockTransactions =
                         Append(@, Transaction(b, s1.blocks[b], tx.origin, local)),
                     !.blocks[b]._transaction = n]

\* transact(block, f, origin, local) on a block of a store, up to the call
\* of f.
TransactBlock(st, b, origin, local) ==
  EnsureBlockTx(TransactInStoreEnter(st, origin, local), b)

\* applyUpdateV2(block, update): transact(block, f, origin, false).
ApplyUpdate(st, b, upd) ==
  Push(TransactBlock(st, b, "update", FALSE),
       <<[f |-> "integrateStructs", b |-> b, upd |-> upd],
         [f |-> "applyDeleteSet", b |-> b, ids |-> SortedIds(upd.ds)]>>)

EmptyClone(st, b, n) ==
  [st EXCEPT !.blocks = (n :> NanoBlock(FALSE, st.clientID)) @@ @,
             !.nfresh = @ + 1]

\* NanoBlock.clone(): a block with a fresh id n that is given the whole
\* state of this block as an update.
NanoBlockClone(st, b, n) ==
  LET block == [NanoBlock(FALSE, st.clientID) EXCEPT !.blockType = st.blocks[b].blockType]
      s1 == [st EXCEPT !.blocks = (n :> block) @@ @,
                       !.nfresh = @ + 1]
  IN Push(s1, <<[f |-> "applyUpdate", b |-> n, upd |-> EncodeStateAsUpdate(st.blocks[b])]>>)


\* The finally block of the initial call, before the cleanup loop.
ResetTransactions(st) ==
  [st EXCEPT !.blocks = [b \in DOMAIN st.blocks |->
                            [st.blocks[b] EXCEPT !._transaction = 0]],
             !.cur = 0]

LeaveLoser(st, r) == st

\* resolveBlockRefs, the body of the loop over the conflicts.
ResolveConflict(st, r) ==
  LET it == GetItem(st, r)
      tgt == it.content.blockId
      has == tgt \in DOMAIN st.blocks
      n == FreshBlockId(st)
  IN Push(st, (IF has THEN <<[f |-> "clone", b |-> tgt, n |-> n]>> ELSE <<>>)
              \o (IF it.parentSub # NoKey
                  THEN <<[f |-> "mapDelete", b |-> r[1], k |-> it.parentSub]>>
                       \o (IF has
                           THEN <<[f |-> "mapSet", b |-> r[1], k |-> it.parentSub,
                                   content |-> ContentBlockRefFromBlock(n), prelim |-> <<>>]>>
                           ELSE <<>>)
                  ELSE <<>>))

\* Bucketing that keeps every added Ref as a candidate.
BucketRefsAllCandidates(st, added, refs, conflicts) ==
  [refs |-> refs \o added, conflicts |-> conflicts]

\* resolveBlockRefs: first pass, the added refs bucketed by block id.
RECURSIVE BucketRefs(_, _, _, _)
BucketRefs(st, added, refs, conflicts) ==
  IF added = <<>> THEN [refs |-> refs, conflicts |-> conflicts]
  ELSE LET r == added[1]
           id == GetItem(st, r).content.blockId
       IN IF \E i \in 1..Len(refs) : GetItem(st, refs[i]).content.blockId = id
          THEN BucketRefs(st, Tail(added), refs, Append(conflicts, r))
          ELSE BucketRefs(st, Tail(added), Append(refs, r), conflicts)

RECURSIVE ClearRemoved(_, _)
ClearRemoved(st, removed) ==
  IF removed = <<>> THEN st
  ELSE LET r == removed[1]
           id == GetItem(st, r).content.blockId
           s1 == GetOrCreateBlock(st, id)
           s2 == IF s1.blocks[id]._referrer # NullRef /\ s1.blocks[id]._referrer = r
                 THEN [s1 EXCEPT !.blocks[id]._prevReferrer = r,
                                 !.blocks[id]._referrer = NullRef]
                 ELSE s1
       IN ClearRemoved(s2, Tail(removed))

\* resolveBlockRefs: second pass; the result carries the conflicts found.
RECURSIVE InstallRefs(_, _, _, _)
InstallRefs(st, refs, local, conflicts) ==
  IF refs = <<>> THEN [st |-> st, conflicts |-> conflicts]
  ELSE LET r == refs[1]
           id == GetItem(st, r).content.blockId
           s1 == GetOrCreateBlock(st, id)
           old == s1.blocks[id]._referrer
       IN IF old # NullRef /\ old # r
          THEN IF local
               THEN InstallRefs(s1, Tail(refs), local, Append(conflicts, r))
               ELSE InstallRefs(
                      ClearCache(SetCache([s1 EXCEPT !.blocks[id]._referrer = r,
                                                     !.swaps = Append(@, <<id, r, old>>)], r, id), old),
                      Tail(refs), local, Append(conflicts, old))
          ELSE IF old = NullRef
          THEN InstallRefs(SetCache([s1 EXCEPT !.blocks[id]._referrer = r], r, id),
                           Tail(refs), local, conflicts)
          ELSE InstallRefs(s1, Tail(refs), local, conflicts)

\* resolveBlockRefs(storeTransaction) for the i-th transaction of the queue.
ResolveBlockRefs(st, i) ==
  LET tx == st.queue[i] IN
  IF tx.blockRefsAdded = <<>> /\ tx.blockRefsRemoved = <<>> THEN st
  ELSE LET bk == BucketRefs(st, tx.blockRefsAdded, <<>>, <<>>)
           s1 == ClearRemoved(st, tx.blockRefsRemoved)
           ins == InstallRefs(s1, bk.refs, tx.local, bk.conflicts)
       IN IF ins.conflicts = <<>> THEN ins.st
          ELSE Push(TransactInStoreEnter(ins.st, "conflict", TRUE),
                    [j \in 1..Len(ins.conflicts) |-> [f |-> "resolveConflict", r |-> ins.conflicts[j]]]
                    \o <<[f |-> "finally"]>>)

\* tryGcDeleteSet for every block transaction, and the change of the
\* block's client id when a remote transaction brought items under it.
RECURSIVE GcIds(_, _, _)
GcIds(st, b, ids) ==
  IF ids = <<>> THEN st
  ELSE LET r == Ref(b, ids[1])
           it == GetItem(st, r)
           s1 == IF it.deleted /\ ~it.keep
                 THEN PutItem(st, r, [it EXCEPT !.content = ContentDeleted])
                 ELSE st
       IN GcIds(s1, b, Tail(ids))

GenerateNewClientId(st) == 2 + st.sid

RECURSIVE CleanupConsumedTransaction(_, _, _)
\* cleanupConsumedTransaction with the update events of the block, as
\* cleanupTransactions has them.
CleanupConsumedTransactionEmits(st, i, j) ==
  IF j > Len(st.queue[i].blockTransactions) THEN st
  ELSE LET b == st.queue[i].blockTransactions[j].block
       IN CleanupConsumedTransaction(Log(st, "updateV2", i, b, NoType), i, j + 1)

CleanupConsumedTransaction(st, i, j) ==
  IF j > Len(st.queue[i].blockTransactions) THEN st
  ELSE LET tr == st.queue[i].blockTransactions[j]
           b == tr.block
           s1 == Log(GcIds(Log(st, "gc", i, b, NoType), b, SortedIds(tr.deleteSet)),
                     "merge", i, b, NoType)
           cid == s1.blocks[b].clientID
           s2 == IF ~tr.local /\ tr.afterState[cid] # tr.beforeState[cid]
                 THEN [s1 EXCEPT !.blocks[b].clientID = GenerateNewClientId(s1),
                                 !.ngen = @ + 1]
                 ELSE s1
       IN CleanupConsumedTransaction(Log(s2, "afterTransactionCleanup", i, b, NoType), i, j + 1)

\* An update map that ignores the delete sets.
RECURSIVE BlockUpdatesOfClocks(_, _, _)
BlockUpdatesOfClocks(st, i, j) ==
  IF j > Len(st.queue[i].blockTransactions) THEN <<>>
  ELSE LET tr == st.queue[i].blockTransactions[j]
       IN (IF tr.afterState # tr.beforeState
           THEN <<[block |-> tr.block,
                   update |-> WriteUpdate(st.blocks[tr.block], tr.beforeState, tr.deleteSet)]>>
           ELSE <<>>) \o BlockUpdatesOfClocks(st, i, j + 1)

\* emitStoreTransactionCleanupEvents: the 'updateV2' event of the store.
RECURSIVE BlockUpdates(_, _, _)
BlockUpdates(st, i, j) ==
  IF j > Len(st.queue[i].blockTransactions) THEN <<>>
  ELSE LET tr == st.queue[i].blockTransactions[j]
           hasContent == tr.deleteSet # {} \/ tr.afterState # tr.beforeState
       IN (IF hasContent
           THEN <<[block |-> tr.block,
                   update |-> WriteUpdate(st.blocks[tr.block], tr.beforeState, tr.deleteSet)]>>
           ELSE <<>>) \o BlockUpdates(st, i, j + 1)

\* store.emit(name, args) once the handlers of the model have run: the
\* handler the application registered throws, and emit does not catch.
StoreHandler(st, name) ==
  IF st.obs.at = name /\ st.obs.what = "throw" THEN Throw(st) ELSE st

EmitStoreTransactionCleanupEvents(st, i) ==
  LET blockUpdates == BlockUpdates(st, i, 1)
      s1 == Log(st, "storeAfterTransactionCleanup", i, NoBlock, NoType)
  IN StoreHandler(Log([s1 EXCEPT !.emit = Append(@, blockUpdates)], "updateV2", i, NoBlock,
                      {blockUpdates[j].block : j \in 1..Len(blockUpdates)}),
                  "updateV2")

SetAfterState(st, i) ==
  LET trs == st.queue[i].blockTransactions
  IN [st EXCEPT !.queue[i].blockTransactions =
        [j \in 1..Len(trs) |->
           [trs[j] EXCEPT !.afterState =
              [c \in Clients |-> GetState(st.blocks[trs[j].block], c)]]]]

\* ---------------------------------------------------------- observer calls
\* The types of a block form a forest: ty[t].parent is the type that holds
\* the item embedding t (NoType when t._item === null) and ty[t].deleted
\* says whether that item is deleted.
RECURSIVE PathLength(_, _, _)
PathLength(ty, from, t) ==
  IF t = from \/ ty[t].parent = NoType THEN 0 ELSE 1 + PathLength(ty, from, ty[t].parent)

ItemAlive(ty, t) == ty[t].parent = NoType \/ ~ty[t].deleted

\* map.setIfUndefined(changedParentTypes, type, () => []).push(event)
AddEvent(cpt, type, target) ==
  IF \E n \in 1..Len(cpt) : cpt[n].type = type
  THEN [n \in 1..Len(cpt) |->
          IF cpt[n].type = type THEN [cpt[n] EXCEPT !.events = Append(@, target)] ELSE cpt[n]]
  ELSE Append(cpt, [type |-> type, events |-> <<target>>])

\* callTypeObservers: the event of a changed type reaches the type and
\* every type above it.
RECURSIVE CallTypeObservers(_, _, _, _)
CallTypeObservers(ty, cpt, type, target) ==
  LET c1 == AddEvent(cpt, type, target)
  IN IF ty[type].parent = NoType THEN c1
     ELSE CallTypeObservers(ty, c1, ty[type].parent, target)

Unsorted(ty, from, events) == events

\* events.sort((event1, event2) => event1.path.length - event2.path.length)
RECURSIVE SortByPath(_, _, _)
SortByPath(ty, from, events) ==
  IF events = <<>> THEN <<>>
  ELSE LET rest == SortByPath(ty, from, Tail(events))
           len == PathLength(ty, from, Head(events))
           n == Cardinality({m \in 1..Len(rest) : PathLength(ty, from, rest[m]) < len})
       IN InsertAt(rest, n, Head(events))

\* The first callbacks of fs: one per changed type, in the order of
\* transaction.changed.  A callback that throws does not stop the next.
RECURSIVE ShallowCalls(_, _, _, _)
ShallowCalls(ty, changed, cpt, calls) ==
  IF changed = <<>> THEN [cpt |-> cpt, calls |-> calls]
  ELSE LET t == Head(changed)
       IN IF ItemAlive(ty, t)
          THEN ShallowCalls(ty, Tail(changed), CallTypeObservers(ty, cpt, t, t),
                            Append(calls, [e |-> "observer", t |-> t, events |-> <<t>>]))
          ELSE ShallowCalls(ty, Tail(changed), cpt, calls)

\* The callback of fs for the deep observers: one loop over
\* changedParentTypes inside one callback, which an exception leaves.
RECURSIVE DeepCalls(_, _, _, _, _)
DeepCalls(ty, cpt, deh, thr, calls) ==
  IF cpt = <<>> THEN calls
  ELSE LET type == cpt[1].type
           events == SortByPath(ty, type,
                       SelectSeq(cpt[1].events, LAMBDA t : ItemAlive(ty, t)))
           c1 == Append(calls, [e |-> "deepObserver", t |-> type, events |-> events])
       IN IF type \in deh /\ ItemAlive(ty, type)
          THEN IF thr.at = "deep" /\ thr.t = type THEN c1
               ELSE DeepCalls(ty, Tail(cpt), deh, thr, c1)
          ELSE DeepCalls(ty, Tail(cpt), deh, thr, calls)

\* consumeBlockTransactionObservers up to the afterTransaction event: the
\* listeners called, in order.  deh are the types with a deep listener,
\* thr names the listener that throws.
ObserverCalls(ty, changed, deh, thr) ==
  LET sh == ShallowCalls(ty, changed, <<>>, <<>>)
  IN DeepCalls(ty, sh.cpt, deh, thr, sh.calls)

\* The types of a block of the store: the root type and the Unref array,
\* both without an embedding item, both with a deep listener.
BlockTypes == [t \in {RootType, UnrefsType} |-> [parent |-> NoType, deleted |-> FALSE]]

\* The listener that throws, when the application registered one: on the
\* root type of the root block.
Thrower(st, b) ==
  IF st.obs.what = "throw" /\ b = RootId THEN [at |-> st.obs.at, t |-> RootType]
  ELSE [at |-> "none", t |-> NoType]

RECURSIVE LogCalls(_, _, _, _)
LogCalls(st, i, b, calls) ==
  IF calls = <<>> THEN st
  ELSE LogCalls(Log(st, calls[1].e, i, b, calls[1].t), i, b, Tail(calls))

\* callBlockTransactionsObservers, from the j-th block transaction on.
CallBlockTransactionsObservers(st, i, j) ==
  IF j > Len(st.queue[i].blockTransactions) THEN st
  ELSE LET tr == st.queue[i].blockTransactions[j]
           b == tr.block
           calls == ObserverCalls(BlockTypes, tr.changed, DOMAIN BlockTypes, Thrower(st, b))
       IN Push(LogCalls(Log(st, "beforeObserverCalls", i, b, NoType), i, b, calls),
               <<[f |-> "afterTransaction", i |-> i, j |-> j],
                 [f |-> "catch"],
                 [f |-> "observers", i |-> i, j |-> j + 1]>>)

\* A listener of the application changes the root map: typeMapSet in a
\* store transaction of its own.  The listener answers the transactions of
\* the user only.
ListenerEdit(st) ==
  Push(TransactInStoreEnter(st, "observer", TRUE),
       <<[f |-> "mapSet", b |-> RootId, k |-> "b", content |-> ContentAny(7),
          prelim |-> <<>>],
         [f |-> "finally"]>>)

\* The last callback of fs: block.emit('afterTransaction').  The listener
\* of the application throws, or changes the root map once more, which
\* opens a store transaction of its own.
AfterTransaction(st, i, j) ==
  LET b == st.queue[i].blockTransactions[j].block
      s1 == Log(st, "afterTransaction", i, b, NoType)
  IN IF st.obs.at = "afterTransaction" /\ b = RootId
     THEN IF st.obs.what = "throw" THEN Throw(s1)
          ELSE IF st.queue[i].origin = "user" THEN ListenerEdit(s1)
          ELSE s1
     ELSE s1

\* callRootObservers: nothing is dispatched.
CallRootObservers(st, i) == Log(st, "rootObservers", i, NoBlock, NoType)

\* The frames of one round after resolveBlockRefs, in the order of the
\* calls of the while loop.
RoundFrames(i) ==
  <<[f |-> "resolved", i |-> i],
    [f |-> "observers", i |-> i, j |-> 1],
    [f |-> "rootObservers", i |-> i],
    [f |-> "consumed", i |-> i],
    [f |-> "cleanupLoop", i |-> i + 1]>>

\* A loop that collects garbage before it calls the observers.
CleanupLoopGcFirst(st, i) ==
  IF i > Len(st.queue) THEN Push(st, <<[f |-> "resetCleanups"]>>)
  ELSE ResolveBlockRefs(
         Log(SetAfterState(Push(st, <<[f |-> "resolved", i |-> i],
                                      [f |-> "consumed", i |-> i],
                                      [f |-> "observers", i |-> i, j |-> 1],
                                      [f |-> "rootObservers", i |-> i],
                                      [f |-> "cleanupLoop", i |-> i + 1]>>), i),
             "resolveBlockRefs", i, NoBlock, NoType), i)

\* A finally block that skips the cleanup when f threw.
ExitWithoutCleanup(st) ==
  LET s1 == ResetTransactions([st EXCEPT !.pending = (st.ctl = "threw"), !.ctl = "ok"])
  IN Push(s1, (IF st.cur = 1 /\ st.ctl # "threw"
               THEN <<[f |-> "cleanupLoop", i |-> 1]>>
               ELSE <<[f |-> "resetCleanups"]>>) \o <<[f |-> "rethrow"]>>)

\* One round of the cleanup loop of transactInStore, for queue position i.
CleanupLoop(st, i) ==
  IF i > Len(st.queue)
  THEN LET s1 == Log(Push(st, <<[f |-> "resetCleanups"]>>), "afterAllTransactions",
                     Len(st.queue), NoBlock, NoType)
       IN IF st.obs.at = "afterAllTransactions" /\ st.queue[1].origin = "user"
          THEN ListenerEdit(s1)
          ELSE s1
  ELSE ResolveBlockRefs(
         Log(SetAfterState(Push(st, RoundFrames(i)), i),
             "resolveBlockRefs", i, NoBlock, NoType), i)

Consumed(st, i) ==
  EmitStoreTransactionCleanupEvents(CleanupConsumedTransaction(st, i, 1), i)

\* transactInStore, the finally block of the initial call.  An exception
\* thrown by f stays pending while the block runs.
TransactInStoreExit(st) ==
  LET s1 == ResetTransactions([st EXCEPT !.pending = (st.ctl = "threw"), !.ctl = "ok",
                                          !.ncl = IF st.cur = 1 THEN @ + 1 ELSE @])
  IN Push(s1, (IF st.cur = 1 THEN <<[f |-> "cleanupLoop", i |-> 1]>> ELSE <<>>)
              \o <<[f |-> "rethrow"]>>)

\* The end of a finally block: the nested transaction of resolveBlockRefs
\* is closed, or the pending exception goes on to the caller.
Finally(st, fr) ==
  IF fr.f = "finally" THEN ResetTransactions(st)
  ELSE [st EXCEPT !.ctl = IF st.pending THEN "threw" ELSE @, !.pending = FALSE]

\* A store update applied by the receiver: applyUpdateV2 on every block.
RECURSIVE ApplyStoreUpdate(_, _)
ApplyStoreUpdate(st, msg) ==
  IF msg = <<>> THEN st
  ELSE Push(GetOrCreateBlock(ApplyStoreUpdate(st, Tail(msg)), msg[1].block),
            <<[f |-> "applyUpdate", b |-> msg[1].block, upd |-> msg[1].update]>>)

\* The call fr is made.
Call(s, fr) ==
  CASE fr.f = "mapSet" -> MapSet(s, fr.b, fr.k, fr.content, fr.prelim)
    [] fr.f = "mapDelete" -> MapDelete(s, fr.b, fr.k)
    [] fr.f = "integrate" -> ItemIntegrate(s, fr.b, fr.item, fr.prelim)
    [] fr.f = "contentIntegrate" -> ContentIntegrate(s, fr.r, fr.prelim)
    [] fr.f = "integrated" -> ItemIntegrated(s, fr.r)
    [] fr.f = "delete" -> ItemDelete(s, fr.r)
    [] fr.f = "addUnref" -> AddUnrefToBlock(s, fr.b, fr.r)
    [] fr.f = "resolveRefConflict" -> ResolveRefConflict(s, fr.r)
    [] fr.f = "setCloned" -> SetCloned(s, fr.r)
    [] fr.f = "blockCreated" -> BlockCreated(s, fr.r, fr.n)
    [] fr.f = "validateCircularRef" -> ValidateCircularRef(s, fr.r)
    [] fr.f = "applyUpdate" -> ApplyUpdate(s, fr.b, fr.upd)
    [] fr.f = "integrateStructs" -> IntegrateStructs(s, fr.b, fr.upd)
    [] fr.f = "applyDeleteSet" -> ApplyDeleteSet(s, fr.b, fr.ids)
    [] fr.f = "clone" -> NanoBlockClone(s, fr.b, fr.n)
    [] fr.f = "resolveConflict" -> ResolveConflict(s, fr.r)
    [] fr.f = "cleanupLoop" -> CleanupLoop(s, fr.i)
    [] fr.f = "resetCleanups" -> [s EXCEPT !.queue = <<>>]
    [] fr.f = "resolved" -> Log(s, "blockRefsResolved", fr.i, NoBlock, NoType)
    [] fr.f = "observers" -> CallBlockTransactionsObservers(s, fr.i, fr.j)
    [] fr.f = "afterTransaction" -> AfterTransaction(s, fr.i, fr.j)
    [] fr.f = "rootObservers" -> CallRootObservers(s, fr.i)
    [] fr.f = "consumed" -> Consumed(s, fr.i)

\* What a store that is being traced keeps of a call: the item the call
\* was about, before and after it, and the referrers of the blocks and the Ref sets of the
\* queued transactions before the call (pre) and when it returned (post);
\* of the call that ends the cleanup of a store transaction also the
\* update it emitted and the transactions then queued (out).
AllCalls ==
  {"mapSet", "mapDelete", "integrate", "contentIntegrate", "integrated", "delete", "addUnref",
   "resolveRefConflict", "setCloned", "blockCreated", "validateCircularRef", "applyUpdate",
   "integrateStructs", "applyDeleteSet", "clone", "resolveConflict", "cleanupLoop",
   "resetCleanups", "resolved", "observers", "afterTransaction", "rootObservers", "consumed",
   "finally", "rethrow", "catch", "exit"}
RefCalls == {"contentIntegrate", "cleanupLoop"}
ConflictFns == {"resolveRefConflict", "resolveConflict"}

RefView(st) ==
  [refs |-> [b \in DOMAIN st.blocks |-> <<st.blocks[b]._referrer, st.blocks[b]._prevReferrer>>],
   sets |-> [i \in DOMAIN st.queue |-> <<st.queue[i].blockRefsAdded, st.queue[i].blockRefsRemoved>>]]

Snap(fr, st, s2) ==
  LET r == IF "r" \in DOMAIN fr THEN fr.r ELSE NullRef
      tr == IF r = NullRef THEN 0 ELSE st.blocks[r[1]]._transaction
  IN [f |-> fr.f, r |-> r, cur |-> st.cur,
      i |-> IF "i" \in DOMAIN fr THEN fr.i ELSE 0,
      local |-> IF st.cur # 0 /\ tr \in DOMAIN st.queue[st.cur].blockTransactions
                THEN st.queue[st.cur].blockTransactions[tr].local ELSE TRUE,
      txlocal |-> IF st.cur # 0 THEN st.queue[st.cur].local ELSE TRUE,
      was |-> IF r = NullRef THEN <<>> ELSE GetItem(st, r),
      item |-> IF r = NullRef THEN <<>> ELSE GetItem(s2, r),
      out |-> IF fr.f = "consumed"
              THEN [emit |-> Last(s2.emit),
                    txs |-> [j \in DOMAIN s2.queue |->
                               [origin |-> s2.queue[j].origin,
                                local |-> s2.queue[j].local,
                                bts |-> s2.queue[j].blockTransactions]]]
              ELSE <<>>,
      pre |-> RefView(st), post |-> RefView(s2)]

Dropped(st, fr) ==
  st.ctl = "threw" /\ fr.f \notin {"finally", "rethrow", "catch", "exit"}

Traced(st, fr, s2) ==
  IF fr.f \notin st.tracing \/ Dropped(st, fr) THEN s2
  ELSE [s2 EXCEPT !.trace = Append(@, Snap(fr, st, s2))]

\* The call on top of the stack is made.  While an exception propagates,
\* calls are dropped up to the end of the next finally block.
Step(st) ==
  LET fr == Head(st.stack)
      s == [st EXCEPT !.stack = Tail(@)]
  IN Traced(st, fr,
       CASE fr.f \in {"finally", "rethrow"} -> Finally(s, fr)
         [] fr.f = "catch" -> [s EXCEPT !.ctl = IF @ = "threw" THEN "ok" ELSE @]
         [] fr.f = "exit" -> TransactInStoreExit(s)
         [] OTHER -> IF st.ctl = "threw" THEN s ELSE Call(s, fr))

\* The store runs until the call stack is empty, or forever.  Steps(st, n)
\* makes up to 2^n calls.
Stopped(st) == st.ctl = "hung" \/ st.stack = <<>>

RECURSIVE Steps(_, _)
Steps(st, n) ==
  IF Stopped(st) THEN st
  ELSE IF n = 0 THEN Step(st)
  ELSE LET half == Steps(st, n - 1) IN Steps(half, n - 1)

RECURSIVE Run(_)
Run(st) ==
  CASE st.ctl = "hung" -> [st EXCEPT !.stack = <<>>]
    [] st.ctl # "hung" /\ st.stack = <<>> -> st
    [] OTHER -> Run(Steps(st, 5))

\* ------------------------------------------------------------ operations
\* typeListDelete(transaction, type, 0, 1): block.get(type, YArray).delete(0)
\* deletes the first item of the array that is not deleted.
ListDelete(st, b, type) ==
  LET s1 == EnsureBlockTx(st, b)
      ch == SelectSeq(s1.blocks[b].chains[<<type, NoKey>>],
                      LAMBDA id : ~GetItem(s1, Ref(b, id)).deleted)
  IN IF ch = <<>> THEN s1 ELSE Push(s1, <<[f |-> "delete", r |-> Ref(b, ch[1])]>>)

EmptyMap == [k \in Keys |-> [kind |-> "none"]]

\* What user code does to the root type (a YMap) of block P.
ApplyOp(st, op) ==
  IF op.kind = "set" THEN MapSet(st, op.P, op.k, ContentAny(st.nops), <<>>)
  ELSE IF op.kind = "ref" THEN MapSet(st, op.P, op.k, ContentBlockRefFromType(op.T), <<>>)
  ELSE IF op.kind = "new" THEN MapSet(st, op.P, op.k, ContentBlockRefFromType(NoBlock), EmptyMap)
  ELSE IF op.kind = "delUnref" THEN ListDelete(st, op.P, UnrefsType)
  ELSE IF op.kind = "refUnrefs" THEN MapSetType(st, op.P, op.k, op.T, UnrefsType)
  ELSE MapDelete(st, op.P, op.k)

\* The operations user code issues: on the blocks that exist from the
\* start, on both keys of the root block and on one key of the others.
UserBlocks == {RootId} \cup SharedIds
UserKeys(p) == IF p = RootId THEN Keys ELSE {"a"}
Ops ==
       {[kind |-> "set", P |-> p, k |-> "a", T |-> NoBlock] : p \in SharedIds}
  \cup {[kind |-> "new", P |-> RootId, k |-> k, T |-> NoBlock] : k \in Keys}
  \cup UNION {{[kind |-> "del", P |-> p, k |-> k, T |-> NoBlock] : k \in UserKeys(p)} :
                p \in UserBlocks}
  \cup UNION {{[kind |-> "ref", P |-> p, k |-> k, T |-> t] : k \in UserKeys(p), t \in UserBlocks} :
                p \in UserBlocks}

Peer(s) == CHOOSE t \in Stores : t # s
OpsDone == store[1].nops + store[2].nops

\* What the caller gets back from a handler: the updates go out to the
\* peer, a thrown exception has reached the caller.  last and hist record
\* what was done, and what held of the blocks P and T before.
Before(s, op) ==
  LET st == store[s]
      known == op.T \in DOMAIN st.blocks
      cid == IF op.P = NoBlock THEN 0 ELSE st.blocks[op.P].clientID
  IN [blocks0 |-> DOMAIN st.blocks,
      ref0 |-> IF known THEN st.blocks[op.T]._referrer ELSE NullRef,
      walk0 |-> IF known THEN WalkReferrers(st, op.P, op.T, CallDepth(st)) ELSE "end",
      item |-> IF op.P = NoBlock THEN NullRef
               ELSE <<op.P, cid, GetState(st.blocks[op.P], cid)>>,
      head0 |-> IF op.P = NoBlock \/ op.k = NoKey THEN NullId ELSE MapHead(st.blocks[op.P], op.k)]

Return(s, st, d, op) ==
  LET what == op @@ Before(s, op) @@
              [s |-> s, threw |-> st.ctl = "threw", hung |-> st.ctl = "hung",
               depth |-> depth[s]]
  IN /\ store' = [store EXCEPT ![s] = [st EXCEPT !.emit = <<>>,
                                                 !.ctl = IF @ = "threw" THEN "ok" ELSE @]]
     /\ net' = [n \in Stores |->
                  IF n = s THEN net[n] \o SelectSeq(st.emit, LAMBDA m : m # <<>>)
                  ELSE IF op.kind \in {"deliver", "applyInside"} THEN Tail(net[n])
                  ELSE IF op.kind = "deliverAll" THEN <<>> ELSE net[n]]
     /\ depth' = [depth EXCEPT ![s] = IF st.ctl = "ok" THEN d ELSE 0]
     /\ last' = what
     /\ probe' = probe
     /\ hist' = IF op.kind \in {"begin", "end", "raise"} THEN hist
                ELSE Append(hist, <<s, op.kind, op.P, op.k, op.T>>)

Enabled(s) == store[s].ctl = "ok"
Fresh(st) ==
  [st EXCEPT !.ncl = 0, !.swaps = <<>>, !.log = <<>>,
             !.trace = IF st.cur = 0 THEN <<>> ELSE @]
NoOp(kind, b) == [kind |-> kind, P |-> b, k |-> NoKey, T |-> NoBlock]

\* store.transact(f) or block.transact(f) is entered (b = NoBlock: store).
TransactBegin(s, b) ==
  /\ Enabled(s)
  /\ depth[s] < MaxDepth
  /\ \A t \in Stores \ {s} : depth[t] = 0
  /\ LET s1 == TransactInStoreEnter(Fresh(store[s]), "user", TRUE)
         s2 == IF b = NoBlock THEN s1 ELSE EnsureBlockTx(s1, b)
     IN Return(s, s2, depth[s] + 1, NoOp("begin", b))

\* The closure of a transact call returns.
TransactEnd(s) ==
  /\ Enabled(s)
  /\ depth[s] > 0
  /\ LET s0 == Fresh(store[s])
         s1 == IF depth[s] = 1 THEN Run(Push(s0, <<[f |-> "exit"]>>)) ELSE s0
     IN Return(s, s1, depth[s] - 1, NoOp("end", NoBlock))

\* User code changes a map: inside the closure of a running transact call,
\* or on its own, which is a transaction of its own.  An exception leaves
\* every transact call that is open.
Do(s, op) ==
  /\ Enabled(s)
  /\ OpsDone < MaxOps
  /\ \A t \in Stores \ {s} : depth[t] = 0
  /\ LET s0 == [Fresh(store[s]) EXCEPT !.nops = @ + 1]
         s1 == Run(ApplyOp(TransactInStoreEnter(s0, "user", TRUE), op))
         s2 == IF s1.ctl # "hung" /\ (depth[s] = 0 \/ s1.ctl = "threw")
               THEN Run(Push(s1, <<[f |-> "exit"]>>))
               ELSE s1
     IN Return(s, s2, depth[s], op)

\* The next update of the peer arrives and is applied in a non-local store
\* transaction.
Deliver(s) ==
  /\ Enabled(s)
  /\ depth[s] = 0
  /\ net[Peer(s)] # <<>>
  /\ LET s1 == Push(TransactInStoreEnter(Fresh(store[s]), "remote", FALSE), <<[f |-> "exit"]>>)
         s2 == Run(ApplyStoreUpdate(s1, Head(net[Peer(s)])))
     IN Return(s, s2, 0, NoOp("deliver", NoBlock))

\* The persisted content that both peers load: block 1 holds b = 9.
Snapshot ==
  <<[block |-> 1,
     update |-> [from |-> [c \in Clients |-> 0],
                 items |-> [c \in Clients |->
                              IF c = SetupClient
                              THEN <<WriteItem(NewItem(<<SetupClient, 0>>, RootType, "b",
                                                       NullId, ContentAny(9)))>>
                              ELSE <<>>],
                 ds |-> {}]]>>

\* A peer after it constructed its store and blocks and loaded the
\* persisted content.
LoadedStore(s) ==
  LET s1 == Push(TransactInStoreEnter(NanoStore(s), "load", FALSE), <<[f |-> "exit"]>>)
  IN [Run(ApplyStoreUpdate(s1, Snapshot)) EXCEPT !.emit = <<>>, !.ncl = 0, !.log = <<>>]

InitStores ==
  /\ store = [s \in Stores |-> LoadedStore(s)]
  /\ net = [s \in Stores |-> <<>>]
  /\ depth = [s \in Stores |-> 0]
  /\ last = NoOp("init", NoBlock) @@
            [blocks0 |-> {}, ref0 |-> NullRef, walk0 |-> "end", item |-> NullRef, head0 |-> NullId,
             s |-> 0, threw |-> FALSE, hung |-> FALSE, depth |-> 0]
  /\ hist = <<>>

Init == InitStores /\ probe = <<>>

\* The listeners an application registers before it starts to work: one
\* that throws, on the root type of the root block or on the block; one that
\* changes the root map, on the block or on the store.
Listeners ==
       {[at |-> a, what |-> "throw"] : a \in {"shallow", "deep", "afterTransaction"}}
  \cup {[at |-> a, what |-> "edit"] : a \in {"afterTransaction", "afterAllTransactions"}}

\* type.observe(f), type.observeDeep(f), block.on(..., f), store.on(..., f)
On(s, l) ==
  /\ hist = <<>>
  /\ store[s].obs.at = "none"
  /\ store' = [store EXCEPT ![s].obs = l]
  /\ UNCHANGED <<net, depth, last, hist, probe>>

Next ==
  \/ \E s \in Stores : \E op \in Ops : depth[s] = 0 /\ Do(s, op)
  \/ \E s \in Stores : Deliver(s)

Spec == Init /\ [][Next]_vars

NextLocal ==
  \/ \E b \in {NoBlock, RootId} : TransactBegin(1, b)
  \/ TransactEnd(1)
  \/ \E op \in Ops : Do(1, op)

SpecLocal == Init /\ [][NextLocal]_vars

\* The closure of a running transact call throws: the exception leaves
\* every open transact call, the outermost one through its finally block.
Raise(s) ==
  /\ Enabled(s)
  /\ depth[s] > 0
  /\ Return(s, Run(Push(Throw(Fresh(store[s])), <<[f |-> "exit"]>>)), 0, NoOp("raise", NoBlock))

NextThrow ==
  \/ NextLocal
  \/ Raise(1)

SpecThrow == Init /\ [][NextThrow]_vars

\* store.on('updateV2', f) with an f that throws, and the work of user
\* code with closures that return or throw.
StoreListeners == {[at |-> "updateV2", what |-> "throw"]}

\* The transactions left in the queue of a store, at most.
MaxQueue == 2

NextHandler ==
  \/ \E l \in StoreListeners : On(1, l)
  \/ store[1].obs.at # "none" /\ Len(store[1].queue) < MaxQueue /\ NextThrow

SpecHandler == Init /\ [][NextHandler]_vars

\* Peer 1 registers a listener and works; peer 2 makes at most the first
\* change, which peer 1 receives.
NextObs ==
  \/ \E l \in Listeners : On(1, l)
  \/ \E op \in Ops : store[1].obs.at # "none" /\ Do(1, op)
  \/ \E op \in Ops : store[1].obs.at # "none" /\ hist = <<>> /\ Do(2, op)
  \/ Deliver(1)

SpecObs == Init /\ [][NextObs]_vars

\* User code also deletes entries of the '_unrefs' array of the root block.
DelUnref == [kind |-> "delUnref", P |-> RootId, k |-> NoKey, T |-> NoBlock]

NextUnref ==
  \/ Next
  \/ \E s \in Stores : depth[s] = 0 /\ Do(s, DelUnref)

SpecUnref == Init /\ [][NextUnref]_vars

\* NanoBlock.getRootBlock(): the root found is kept in _rootBlock of every
\* block on the way.  item.block is the block that holds the item.  ok is
\* FALSE when the recursion exhausts the call stack.
RECURSIVE GetRootBlock(_, _, _)
GetRootBlock(st, b, fuel) ==
  LET blk == st.blocks[b] IN
  IF fuel = 0 THEN [st |-> st, root |-> NoBlock, ok |-> FALSE]
  ELSE IF blk._rootBlock # NoBlock THEN [st |-> st, root |-> blk._rootBlock, ok |-> TRUE]
  ELSE IF blk.isRoot
  THEN [st |-> [st EXCEPT !.blocks[b]._rootBlock = b], root |-> b, ok |-> TRUE]
  ELSE IF blk._referrer = NullRef THEN [st |-> st, root |-> NoBlock, ok |-> TRUE]
  ELSE LET g == GetRootBlock(st, blk._referrer[1], fuel - 1)
       IN IF g.ok /\ g.root # NoBlock
          THEN [g EXCEPT !.st.blocks[b]._rootBlock = g.root]
          ELSE g

\* User code asks a block of store s for its root block, outside any
\* transaction; probe holds the call and what it returned.
NoCall == [s |-> 0, b |-> NoBlock, root |-> NoBlock, threw |-> FALSE]

RootOf(s, b) ==
  /\ Enabled(s)
  /\ depth[s] = 0
  /\ b \in DOMAIN store[s].blocks
  /\ LET g == GetRootBlock(store[s], b, CallDepth(store[s]))
     IN /\ store' = [store EXCEPT ![s] = g.st]
        /\ probe' = [s |-> s, b |-> b, root |-> g.root, threw |-> ~g.ok]
  /\ UNCHANGED <<net, depth, last, hist>>

InitRoot == InitStores /\ probe = NoCall

\* Peer 1 works and asks for root blocks; peer 2 makes at most the first
\* change, which peer 1 receives.
NextRoot ==
  \/ \E op \in Ops : Do(1, op)
  \/ \E op \in Ops : hist = <<>> /\ Do(2, op)
  \/ Deliver(1)
  \/ \E b \in UserBlocks : RootOf(1, b)

SpecRoot == InitRoot /\ [][NextRoot]_vars

\* User code calls block.clone() outside any transaction: applyUpdateV2
\* opens a store transaction that is not local.  The application clones
\* one block; T of the recorded call is the id of the new block.
Cloned == {hist[i][5] : i \in {j \in DOMAIN hist : hist[j][2] = "clone"}}

Clone(s, b) ==
  /\ Enabled(s)
  /\ depth[s] = 0
  /\ Cloned = {}
  /\ LET s0 == Fresh(store[s])
         n == FreshBlockId(s0)
         s1 == NanoBlockClone(Push(s0, <<[f |-> "exit"]>>), b, n)
     IN Return(s, Run(TransactInStoreEnter(s1, "clone", FALSE)), 0,
               [kind |-> "clone", P |-> b, k |-> NoKey, T |-> n])

\* What user code does to the new block.
CloneOps(n) == {[kind |-> kd, P |-> n, k |-> "a", T |-> NoBlock] : kd \in {"set", "del"}}

NextClone ==
  \/ \E op \in Ops : Do(1, op)
  \/ \E b \in UserBlocks : Clone(1, b)
  \/ \E n \in Cloned : \E op \in CloneOps(n) : Do(1, op)

SpecClone == Init /\ [][NextClone]_vars

\* store.createBlock(type, id) and store.getOrCreateBlock(id, type) called
\* by user code with the id of a shared block; probe holds the last call.
BlockTypeNames == {"map", "array"}

CreateBlock(st, type, id) ==
  [st EXCEPT !.blocks = (id :> [NanoBlock(FALSE, st.clientID) EXCEPT !.blockType = type]) @@ @]

GetOrCreateBlockOfType(st, id, type) ==
  IF id \in DOMAIN st.blocks THEN st ELSE CreateBlock(st, type, id)

NoCreate == [call |-> "none", id |-> NoBlock, type |-> "map", threw |-> FALSE]

Create(s, call, id, type) ==
  /\ Enabled(s)
  /\ depth[s] = 0
  /\ LET st == IF call = "createBlock" THEN CreateBlock(store[s], type, id)
               ELSE GetOrCreateBlockOfType(store[s], id, type)
     IN /\ store' = [store EXCEPT ![s] = st]
        /\ probe' = [call |-> call, id |-> id, type |-> type, threw |-> st.ctl = "threw"]
  /\ UNCHANGED <<net, depth, last, hist>>

InitTypes == InitStores /\ probe = NoCreate

\* The application works on its blocks, then asks the store for blocks by
\* id; UnusedId is an id that no block has.
UnusedId == NShared + 1

NextTypes ==
  \/ \E op \in Ops : probe = NoCreate /\ Do(1, op)
  \/ \E call \in {"createBlock", "getOrCreateBlock"} :
       \E id \in SharedIds \cup {UnusedId} : \E type \in BlockTypeNames :
         Create(1, call, id, type)

SpecTypes == InitTypes /\ [][NextTypes]_vars

\* User code also embeds the '_unrefs' array of a block, a type of the
\* block that is not its root type.
NestedOps ==
  UNION {{[kind |-> "refUnrefs", P |-> p, k |-> k, T |-> t] : k \in UserKeys(p), t \in UserBlocks} :
           p \in UserBlocks}

NextNested ==
  \/ NextLocal
  \/ \E op \in NestedOps : Do(1, op)

SpecNested == Init /\ [][NextNested]_vars

\* A setter that takes every new id.
SetIdAlways(blocks, block, _id, newId) ==
  [blocks |-> (newId :> block) @@ blocks, _id |-> newId]

\* NanoBlock.setId(newId) on a block of a store whose registry is `blocks`;
\* _id is the id of the block, NoBlock when it is unset.
SetId(blocks, block, _id, newId) ==
  IF _id # NoBlock THEN [blocks |-> blocks, _id |-> _id]
  ELSE [blocks |-> (newId :> block) @@ blocks, _id |-> newId]

\* new NanoBlock({ store, isRoot: true }): a root block without id, which
\* the constructor does not register.  probe holds the id of that block.
NoIdYet == [_id |-> NoBlock]

\* User code sets the id of a registered block (b is its id) or of the
\* block that was constructed without id (b = NoBlock).
SetIdOf(s, b, newId) ==
  /\ Enabled(s)
  /\ depth[s] = 0
  /\ b = NoBlock \/ b \in DOMAIN store[s].blocks
  /\ LET st == store[s]
         _id == IF b = NoBlock THEN probe._id ELSE b
         block == IF _id = NoBlock THEN NanoBlock(TRUE, st.clientID) ELSE st.blocks[_id]
         r == SetId(st.blocks, block, _id, newId)
     IN /\ store' = [store EXCEPT ![s].blocks = r.blocks]
        /\ probe' = IF b = NoBlock THEN [_id |-> r._id] ELSE probe
  /\ UNCHANGED <<net, depth, last, hist>>

InitIds == InitStores /\ probe = NoIdYet

NextIds ==
  \/ \E op \in Ops : Do(1, op)
  \/ \E b \in UserBlocks \cup {NoBlock} : \E newId \in SharedIds \cup {UnusedId} :
       SetIdOf(1, b, newId)

SpecIds == InitIds /\ [][NextIds]_vars

\* Peer 1 is traced: it works, with nested transact calls, and receives
\* the first change of peer 2.
InitTrace ==
  /\ store = [s \in Stores |-> [LoadedStore(s) EXCEPT !.tracing = IF s = 1 THEN AllCalls ELSE {}]]
  /\ net = [s \in Stores |-> <<>>]
  /\ depth = [s \in Stores |-> 0]
  /\ last = NoOp("init", NoBlock) @@
            [blocks0 |-> {}, ref0 |-> NullRef, walk0 |-> "end", item |-> NullRef, head0 |-> NullId,
             s |-> 0, threw |-> FALSE, hung |-> FALSE, depth |-> 0]
  /\ hist = <<>>
  /\ probe = <<>>

NextTrace ==
  \/ NextLocal
  \/ \E op \in Ops : hist = <<>> /\ Do(2, op)
  \/ Deliver(1)

SpecTrace == InitTrace /\ [][NextTrace]_vars

\* User code applies the next update of the peer inside a transaction of
\* its own, which is local:
\*   store.transact(() => { applyUpdateV2(block, update) })
ApplyInside(s) ==
  /\ Enabled(s)
  /\ depth[s] = 0
  /\ net[Peer(s)] # <<>>
  /\ LET s1 == Push(TransactInStoreEnter(Fresh(store[s]), "user", TRUE), <<[f |-> "exit"]>>)
         s2 == Run(ApplyStoreUpdate(s1, Head(net[Peer(s)])))
     IN Return(s, s2, 0, NoOp("applyInside", NoBlock))

LocalCalls == {"contentIntegrate", "delete", "addUnref", "resolveRefConflict", "consumed"}

InitApply ==
  /\ store = [s \in Stores |-> [LoadedStore(s) EXCEPT !.tracing = IF s = 1 THEN LocalCalls ELSE {}]]
  /\ net = [s \in Stores |-> <<>>]
  /\ depth = [s \in Stores |-> 0]
  /\ last = NoOp("init", NoBlock) @@
            [blocks0 |-> {}, ref0 |-> NullRef, walk0 |-> "end", item |-> NullRef, head0 |-> NullId,
             s |-> 0, threw |-> FALSE, hung |-> FALSE, depth |-> 0]
  /\ hist = <<>>
  /\ probe = <<>>

NextApply ==
  \/ \E op \in Ops : Do(1, op)
  \/ \E op \in Ops : hist = <<>> /\ Do(2, op)
  \/ ApplyInside(1)
  \/ Deliver(1)

SpecApply == InitApply /\ [][NextApply]_vars

\* Peers with the client ids 2, 3 and 4 each reference a block of the
\* shared content, concurrently; peer 1 applies the updates it has
\* received from them in one store transaction that is not local:
\*   transactInStore(store, () => { for (u of updates) applyUpdateV2(..., u) }, origin, false)
Senders == {2, 3, 4}

\* References from a block to another, shared, block.
RefOps == {op \in Ops : op.kind = "ref" /\ op.T \in SharedIds /\ op.P # op.T}

\* The update that the peer with client id c emits for op, made on the
\* loaded content.
UpdateOf(c, op) ==
  LET s0 == [Fresh(LoadedStore(c)) EXCEPT !.nops = @ + 1]
      s1 == Run(ApplyOp(TransactInStoreEnter(s0, "user", TRUE), op))
      s2 == Run(Push(s1, <<[f |-> "exit"]>>))
  IN SelectSeq(s2.emit, LAMBDA m : m # <<>>)

Updates == [c \in Senders, op \in RefOps |-> UpdateOf(c, op)]

Send(c, op) ==
  /\ c \notin probe
  /\ IF hist = <<>> THEN TRUE ELSE Last(hist)[2] # "deliverAll"
  /\ net' = [net EXCEPT ![2] = @ \o Updates[c, op]]
  /\ probe' = probe \cup {c}
  /\ UNCHANGED <<store, depth, last, hist>>

RECURSIVE Concat(_)
Concat(msgs) == IF msgs = <<>> THEN <<>> ELSE Concat(Tail(msgs)) \o Head(msgs)

DeliverAll(s) ==
  /\ Enabled(s)
  /\ depth[s] = 0
  /\ net[Peer(s)] # <<>>
  /\ LET s1 == Push(TransactInStoreEnter(Fresh(store[s]), "remote", FALSE), <<[f |-> "exit"]>>)
         s2 == Run(ApplyStoreUpdate(s1, Concat(net[Peer(s)])))
     IN Return(s, s2, 0, NoOp("deliverAll", NoBlock))

InitBatch ==
  /\ store = [s \in Stores |-> [LoadedStore(s) EXCEPT !.tracing = IF s = 1 THEN RefCalls ELSE {}]]
  /\ net = [s \in Stores |-> <<>>]
  /\ depth = [s \in Stores |-> 0]
  /\ last = NoOp("init", NoBlock) @@
            [blocks0 |-> {}, ref0 |-> NullRef, walk0 |-> "end", item |-> NullRef, head0 |-> NullId,
             s |-> 0, threw |-> FALSE, hung |-> FALSE, depth |-> 0]
  /\ hist = <<>>
  /\ probe = {}

NextBatch ==
  \/ \E op \in RefOps : hist = <<>> /\ probe = {} /\ Do(1, op)
  \/ \E c \in Senders, op \in RefOps : Send(c, op)
  \/ DeliverAll(1)

SpecBatch == InitBatch /\ [][NextBatch]_vars

\* Peers that loaded content in which block 1 embeds block 2: the
\* persisted content also has the key a of block 1 set to a Ref to block 2.
SnapshotEmbedded ==
  <<[block |-> 1,
     update |-> [from |-> [c \in Clients |-> 0],
                 items |-> [c \in Clients |->
                              IF c = SetupClient
                              THEN <<WriteItem(NewItem(<<SetupClient, 0>>, RootType, "b",
                                                       NullId, ContentAny(9))),
                                     WriteItem(NewItem(<<SetupClient, 1>>, RootType, "a",
                                                       NullId, ContentBlockRefFromBlock(2)))>>
                              ELSE <<>>],
                 ds |-> {}]]>>

EmbeddedStore(s) ==
  LET s1 == Push(TransactInStoreEnter(NanoStore(s), "load", FALSE), <<[f |-> "exit"]>>)
  IN [Run(ApplyStoreUpdate(s1, SnapshotEmbedded)) EXCEPT !.emit = <<>>, !.ncl = 0, !.log = <<>>]

InitDeep ==
  /\ store = [s \in Stores |->
               [EmbeddedStore(s) EXCEPT !.tracing = IF s = 1 THEN ConflictFns ELSE {}]]
  /\ net = [s \in Stores |-> <<>>]
  /\ depth = [s \in Stores |-> 0]
  /\ last = NoOp("init", NoBlock) @@
            [blocks0 |-> {}, ref0 |-> NullRef, walk0 |-> "end", item |-> NullRef, head0 |-> NullId,
             s |-> 0, threw |-> FALSE, hung |-> FALSE, depth |-> 0]
  /\ hist = <<>>
  /\ probe = <<>>

SpecDeep == InitDeep /\ [][NextTrace]_vars

\* resolveRefConflict called on a Ref item of an array.  The array is the
\* list of its items, in document order; an item holds one or more
\* elements (ContentAny of a push of several values), a Ref item one.
MaxItems == 3

ArrItem(els, deleted, ref) ==
  [els |-> els, deleted |-> deleted, countable |-> TRUE, ref |-> ref]

\* array.toArray()
RECURSIVE ToArray(_)
ToArray(arr) ==
  IF arr = <<>> THEN <<>>
  ELSE (IF ~Head(arr).deleted /\ Head(arr).countable THEN Head(arr).els ELSE <<>>)
       \o ToArray(Tail(arr))

\* The loop of resolveRefConflict over the items left of item p.
RECURSIVE IndexLeftOf(_, _)
IndexLeftOf(arr, p) ==
  IF p = 1 THEN 0
  ELSE IndexLeftOf(arr, p - 1)
       + (IF ~arr[p - 1].deleted /\ arr[p - 1].countable THEN 1 ELSE 0)

\* The elements that the live items before item i hold.
Offset(arr, i) == Len(ToArray(SubSeq(arr, 1, i - 1)))

\* typeListDelete(transaction, array, index, 1): the item that holds the
\* element is split around it and the element deleted.
TypeListDelete(arr, index) ==
  LET at == {i \in 1..Len(arr) :
               /\ ~arr[i].deleted /\ arr[i].countable
               /\ Offset(arr, i) <= index /\ index < Offset(arr, i) + Len(arr[i].els)}
  IN IF at = {} THEN [ok |-> FALSE, arr |-> arr]
     ELSE LET i == CHOOSE x \in at : TRUE
              o == index - Offset(arr, i)
              els == arr[i].els
              parts == (IF o > 0 THEN <<[arr[i] EXCEPT !.els = SubSeq(els, 1, o)]>> ELSE <<>>)
                       \o <<[arr[i] EXCEPT !.els = <<els[o + 1]>>, !.deleted = TRUE]>>
                       \o (IF o + 1 < Len(els)
                           THEN <<[arr[i] EXCEPT !.els = SubSeq(els, o + 2, Len(els))]>>
                           ELSE <<>>)
          IN [ok |-> TRUE,
              arr |-> SubSeq(arr, 1, i - 1) \o parts \o SubSeq(arr, i + 1, Len(arr))]

\* typeListInsertGenerics(transaction, array, index, [x]): the new item
\* goes to the start for index 0, else right behind the index-th element.
TypeListInsert(arr, index, item) ==
  IF index = 0 THEN [ok |-> TRUE, arr |-> <<item>> \o arr]
  ELSE LET at == {i \in 1..Len(arr) :
                    /\ ~arr[i].deleted /\ arr[i].countable
                    /\ Offset(arr, i) < index /\ index <= Offset(arr, i) + Len(arr[i].els)}
       IN IF at = {} THEN [ok |-> FALSE, arr |-> arr]
          ELSE LET i == CHOOSE x \in at : TRUE
                   o == index - Offset(arr, i)
                   els == arr[i].els
                   parts == <<[arr[i] EXCEPT !.els = SubSeq(els, 1, o)], item>>
                            \o (IF o < Len(els)
                                THEN <<[arr[i] EXCEPT !.els = SubSeq(els, o + 1, Len(els))]>>
                                ELSE <<>>)
               IN [ok |-> TRUE,
                   arr |-> SubSeq(arr, 1, i - 1) \o parts \o SubSeq(arr, i + 1, Len(arr))]

CloneValue == 99

\* resolveRefConflict(store, ref) for the Ref item p of an array.
ResolveRefConflictInArray(arr, p) ==
  IF arr[p].deleted THEN [ok |-> TRUE, arr |-> arr]
  ELSE LET index == IndexLeftOf(arr, p)
           del == TypeListDelete(arr, index)
       IN IF ~del.ok THEN del
          ELSE TypeListInsert(del.arr, index, ArrItem(<<CloneValue>>, FALSE, TRUE))

\* Arrays of up to MaxItems items: values pushed one or two at a time,
\* deleted values, Refs and deleted Refs.  Item i holds the values 10 i + 1
\* and 10 i + 2.
ArrItemsAt(i) ==
  {ArrItem(<<10 * i + 1>>, d, r) : d \in BOOLEAN, r \in BOOLEAN}
  \cup {ArrItem(<<10 * i + 1, 10 * i + 2>>, FALSE, FALSE)}

Arrays ==
  UNION {{arr \in [1..n -> UNION {ArrItemsAt(i) : i \in 1..n}] :
            \A i \in 1..n : arr[i] \in ArrItemsAt(i)} : n \in 1..MaxItems}

NoArray == [arr |-> <<>>, p |-> 0, ok |-> TRUE, was |-> <<>>]

ResolveInArray(arr, p) ==
  /\ hist = <<>>
  /\ probe.p = 0
  /\ p \in 1..Len(arr)
  /\ arr[p].ref
  /\ LET res == ResolveRefConflictInArray(arr, p)
     IN probe' = [arr |-> res.arr, p |-> p, ok |-> res.ok, was |-> arr]
  /\ UNCHANGED <<store, net, depth, last, hist>>

\* resolveRefConflict(store, ref) called for the Ref item r of a map of
\* the store.
Resolve(s, r) ==
  /\ Enabled(s)
  /\ \A t \in Stores \ {s} : depth[t] = 0
  /\ \A i \in 1..Len(hist) : hist[i][2] # "resolve"
  /\ r[1] \in DOMAIN store[s].blocks
  /\ r[2] \in Clients
  /\ r[3] < GetState(store[s].blocks[r[1]], r[2])
  /\ GetItem(store[s], r).content.kind = "ref"
  /\ LET it == GetItem(store[s], r)
         s0 == Fresh(store[s])
         s1 == Run(Push(TransactInStoreEnter(s0, "user", TRUE),
                        <<[f |-> "resolveRefConflict", r |-> r]>>))
         s2 == IF s1.ctl # "hung" /\ (depth[s] = 0 \/ s1.ctl = "threw")
               THEN Run(Push(s1, <<[f |-> "exit"]>>))
               ELSE s1
     IN Return(s, s2, depth[s],
               [kind |-> "resolve", P |-> r[1], k |-> it.parentSub, T |-> it.content.blockId,
                r |-> r, deleted |-> it.deleted, was |-> store[s].blocks])

InitResolve == InitStores /\ probe = NoArray

NextResolve ==
  \/ probe.p = 0 /\ NextLocal
  \/ \E b \in UserBlocks, c \in Clients, n \in 0..MaxOps :
       probe.p = 0 /\ Resolve(1, <<b, c, n>>)
  \/ \E arr \in Arrays, p \in 1..MaxItems : ResolveInArray(arr, p)

SpecResolve == InitResolve /\ [][NextResolve]_vars

\* Two peers whose stores drew the same random client id.
ClashId == 1
ClashStore(s) ==
  LET st == LoadedStore(s)
  IN [st EXCEPT !.clientID = ClashId,
                !.blocks = [b \in DOMAIN st.blocks |-> [st.blocks[b] EXCEPT !.clientID = ClashId]]]

InitClash ==
  /\ store = [s \in Stores |-> ClashStore(s)]
  /\ net = [s \in Stores |-> <<>>]
  /\ depth = [s \in Stores |-> 0]
  /\ last = NoOp("init", NoBlock) @@
            [blocks0 |-> {}, ref0 |-> NullRef, walk0 |-> "end", item |-> NullRef, head0 |-> NullId,
             s |-> 0, threw |-> FALSE, hung |-> FALSE, depth |-> 0]
  /\ hist = <<>>
  /\ probe = <<>>

SpecClash == InitClash /\ [][Next]_vars

\* ------------------------------------------------- a block without a store
\* new NanoBlock(opts) outside any store, with one afterTransaction
\* listener: it records tr.origin and, for the first `limit` events, runs
\* `prog`: "cleanup" is a read that opens a transaction with origin
\* 'cleanup', "nested" is block.transact(f, 'nested').
MaxTransact == 2
MaxProg == 2
Progs == UNION {[1..n -> {"cleanup", "nested"}] : n \in 0..MaxProg}

SoloBlock(prog, limit) ==
  [_transaction |-> 0, _transactionCleanups |-> <<>>, created |-> <<>>, origins |-> <<>>,
   text |-> 0, prog |-> prog, limit |-> limit, n |-> 0, wrote |-> <<>>, updates |-> <<>>]

\* transact(block, f, origin) up to the call of f.
SoloEnter(blk, origin) ==
  IF blk._transaction # 0 THEN blk
  ELSE [blk EXCEPT !._transactionCleanups =
                     Append(@, [origin |-> origin, id |-> Len(blk.created) + 1]),
                   !._transaction = Len(blk._transactionCleanups) + 1,
                   !.created = Append(@, origin),
                   !.wrote = Append(@, FALSE)]

AlwaysFinishCleanup(blk) == TRUE
\* finishCleanup = block._transaction === transactionCleanups[0]
FinishCleanup(blk) == blk._transaction = 1

\* An insertion into the text of the block, in its current transaction.
SoloInsert(blk) ==
  [blk EXCEPT !.text = @ + 1,
              !.wrote[blk._transactionCleanups[blk._transaction].id] = TRUE]

\* cleanupTransactions: the 'update' and 'updateV2' events of the block,
\* which has a listener for both.
SoloEmitNothing(blk, tr) == blk

SoloEmitUpdates(blk, tr) ==
  IF blk.wrote[tr.id]
  THEN [blk EXCEPT !.updates = @ \o <<[e |-> "update", id |-> tr.id, origin |-> tr.origin],
                                       [e |-> "updateV2", id |-> tr.id, origin |-> tr.origin]>>]
  ELSE blk

RECURSIVE SoloTransact(_, _, _)
RECURSIVE SoloListener(_, _, _)
RECURSIVE CleanupTransactions(_, _)

\* transact(block, f, origin) for a block without a store.  f inserts a
\* character, directly or in a transact call of its own.
SoloTransact(blk, origin, f) ==
  LET initialCall == blk._transaction = 0
      b1 == SoloEnter(blk, origin)
      b2 == IF f = "transact" THEN SoloTransact(b1, "inner", "insert")
            ELSE IF f = "insert" THEN SoloInsert(b1)
            ELSE b1
  IN IF ~initialCall THEN b2
     ELSE IF FinishCleanup(b2) /\ Len(b2._transactionCleanups) > 0
          THEN CleanupTransactions([b2 EXCEPT !._transaction = 0], 1)
          ELSE [b2 EXCEPT !._transaction = 0]

\* The afterTransaction listener of the application, from step k of prog.
SoloListener(blk, tr, k) ==
  IF k = 0
  THEN LET b1 == [blk EXCEPT !.origins = Append(@, tr.origin)]
       IN IF Len(b1.origins) <= blk.limit THEN SoloListener(b1, tr, 1) ELSE b1
  ELSE IF k > Len(blk.prog) THEN blk
  ELSE SoloListener(SoloTransact(blk, blk.prog[k],
                                 IF blk.prog[k] = "nested" THEN "insert" ELSE "read"),
                    tr, k + 1)

\* cleanupTransactions(transactionCleanups, i), positions counted from 1.
CleanupTransactions(blk, i) ==
  IF i > Len(blk._transactionCleanups) THEN blk
  ELSE LET b1 == SoloEmitUpdates(SoloListener(blk, blk._transactionCleanups[i], 0),
                                 blk._transactionCleanups[i])
       IN IF Len(b1._transactionCleanups) <= i
          THEN [b1 EXCEPT !._transactionCleanups = <<>>]
          ELSE CleanupTransactions(b1, i + 1)

\* User code calls block.transact(f, origin) on the idle block.
Transact(origin, f) ==
  /\ probe.n < MaxTransact
  /\ probe' = [SoloTransact(probe, origin, f) EXCEPT !.n = @ + 1]
  /\ UNCHANGED <<store, net, depth, last, hist>>

InitSolo ==
  /\ InitStores
  /\ probe \in {SoloBlock(prog, limit) : prog \in Progs, limit \in 0..MaxProg}

NextSolo == \E origin \in {"first", "second"} : \E f \in {"insert", "transact"} : Transact(origin, f)

SpecSolo == InitSolo /\ [][NextSolo]_vars

\* A block of a store and a block without a store at work: user code
\* changes the blocks of store 1, then calls transact on the block that
\* has no store.
InitEmit ==
  /\ InitStores
  /\ probe \in {SoloBlock(prog, 1) : prog \in {<<>>, <<"cleanup", "nested">>}}

NextEmit ==
  \/ \E op \in Ops : probe.n = 0 /\ Do(1, op)
  \/ NextSolo

SpecEmit == InitEmit /\ [][NextEmit]_vars

\* ------------------------------------------- dispatch over nested types
\* A block whose root map holds a map "x" that holds a map "y".  When the
\* item of "x" is deleted, so is the item of "y".
MaxChanged == 3
NestedTypes == {RootType, UnrefsType, "x", "y"}
TypeForest(delx, dely) ==
  [t \in NestedTypes |->
     [parent |-> IF t = "x" THEN RootType ELSE IF t = "y" THEN "x" ELSE NoType,
      deleted |-> IF t = "x" THEN delx ELSE IF t = "y" THEN dely ELSE FALSE]]

ChangedSeqs ==
  {q \in UNION {[1..n -> NestedTypes] : n \in 0..MaxChanged} :
     \A a, b \in DOMAIN q : a # b => q[a] # q[b]}

DispatchInputs ==
  {[ty |-> TypeForest(d[1], d[2]), changed |-> q, deh |-> h, calls |-> <<>>, done |-> FALSE] :
     d \in {<<FALSE, FALSE>>, <<FALSE, TRUE>>, <<TRUE, TRUE>>},
     q \in ChangedSeqs, h \in SUBSET NestedTypes}

\* The observers of one block transaction are called.
Dispatch ==
  /\ probe # <<>>
  /\ ~probe.done
  /\ probe' = [probe EXCEPT
                 !.calls = ObserverCalls(probe.ty, probe.changed, probe.deh,
                                         [at |-> "none", t |-> NoType]),
                 !.done = TRUE]
  /\ UNCHANGED <<store, net, depth, last, hist>>

InitDispatch == InitStores /\ probe \in DispatchInputs \cup {<<>>}

NextDispatch ==
  \/ Dispatch
  \/ \E op \in Ops : probe = <<>> /\ Do(1, op)

SpecDispatch == InitDispatch /\ [][NextDispatch]_vars

\* ------------------------------------------------- GC and struct merging
\* The struct list of one client of a block: Items and GC structs with
\* their clock and length.  link says that the item continues its left
\* neighbour (same origins, left.right === item), which Item.mergeWith
\* requires.
MaxStructs == 3
MaxLength == 2

\* What a transaction adds to the list: items written locally or
\* received (a Ref does not merge; keep is set on integration or by the
\* application), items received with their content already collected,
\* which enter the delete set, and GC structs received.
ItemShape(deleted, keep, content, link, len) ==
  [gc |-> FALSE, deleted |-> deleted, keep |-> keep, content |-> content, link |-> link,
   len |-> len]

Shapes ==
       {ItemShape(FALSE, FALSE, "any", l, n) : l \in BOOLEAN, n \in 1..MaxLength}
  \cup {ItemShape(FALSE, FALSE, "ref", TRUE, 1), ItemShape(FALSE, TRUE, "any", TRUE, 1),
        ItemShape(TRUE, FALSE, "deleted", TRUE, 1)}
  \cup {[gc |-> TRUE, deleted |-> TRUE, keep |-> FALSE, content |-> "gc", link |-> FALSE, len |-> 1]}

RECURSIVE Place(_, _)
Place(new, clock) ==
  IF new = <<>> THEN <<>>
  ELSE <<new[1] @@ [clock |-> clock]>> \o Place(Tail(new), clock + new[1].len)

EndClock(structs) == IF structs = <<>> THEN 0 ELSE Last(structs).clock + Last(structs).len

\* sortAndMergeDeleteSet of the ranges of the structs with indices in D.
RECURSIVE DeleteItems(_, _, _)
DeleteItems(structs, D, i) ==
  IF i > Len(structs) THEN <<>>
  ELSE LET rest == DeleteItems(structs, D, i + 1)
           me == [clock |-> structs[i].clock, len |-> structs[i].len]
       IN IF i \notin D THEN rest
          ELSE IF rest # <<>> /\ rest[1].clock = me.clock + me.len
          THEN <<[clock |-> me.clock, len |-> me.len + rest[1].len]>> \o Tail(rest)
          ELSE <<me>> \o rest

\* findIndexSS(structs, clock), counted from 0.
FindIndexSS(structs, clock) ==
  (CHOOSE i \in DOMAIN structs :
     structs[i].clock <= clock /\ clock < structs[i].clock + structs[i].len) - 1

\* left.mergeWith(right) of Item and of GC, with the checks of
\* tryToMergeWithLefts before it.
CanMerge(left, right) ==
  /\ left.deleted = right.deleted
  /\ left.gc = right.gc
  /\ \/ left.gc
     \/ right.link /\ left.content = right.content /\ left.content \in {"any", "deleted"}

MergeInto(left, right) ==
  [left EXCEPT !.len = left.len + right.len, !.keep = left.keep \/ right.keep]

\* The for loop of tryToMergeWithLefts: i as in the source, structs[i] is
\* the (i + 1)-th element.
RECURSIVE MergeLoop(_, _)
MergeLoop(structs, i) ==
  IF i > 0 /\ CanMerge(structs[i], structs[i + 1])
  THEN MergeLoop([structs EXCEPT ![i] = MergeInto(structs[i], structs[i + 1])], i - 1)
  ELSE [structs |-> structs, i |-> i]

\* A tryToMergeWithLefts that does not remove the merged structs.
TryToMergeWithLeftsNoSplice(structs, pos) ==
  LET r == MergeLoop(structs, pos)
  IN [structs |-> r.structs, merged |-> pos - r.i]

TryToMergeWithLefts(structs, pos) ==
  LET r == MergeLoop(structs, pos)
      merged == pos - r.i
  IN [structs |-> SubSeq(r.structs, 1, pos + 1 - merged)
                    \o SubSeq(r.structs, pos + 2, Len(r.structs)),
      merged |-> merged]

\* tryGcDeleteSet: struct.gc(store, false) keeps the Item and replaces
\* its content.
TryGcDeleteSet(structs, ds) ==
  [i \in DOMAIN structs |->
     IF /\ \E d \in DOMAIN ds : ds[d].clock <= structs[i].clock
                                 /\ structs[i].clock < ds[d].clock + ds[d].len
        /\ ~structs[i].gc /\ structs[i].deleted /\ ~structs[i].keep
     THEN [structs[i] EXCEPT !.content = "deleted"]
     ELSE structs[i]]

\* The inner loop of tryMergeDeleteSet for one delete item.
RECURSIVE MergeDown(_, _, _)
MergeDown(structs, si, clock) ==
  IF si > 0 /\ structs[si + 1].clock >= clock
  THEN LET r == TryToMergeWithLefts(structs, si)
       IN MergeDown(r.structs, si - (1 + r.merged), clock)
  ELSE structs

RECURSIVE TryMergeDeleteSet(_, _, _)
TryMergeDeleteSet(structs, ds, di) ==
  IF di = 0 THEN structs
  ELSE LET mostRightIndexToCheck ==
             Min({Len(structs) - 1,
                  1 + FindIndexSS(structs, ds[di].clock + ds[di].len - 1)})
       IN TryMergeDeleteSet(MergeDown(structs, mostRightIndexToCheck, ds[di].clock), ds, di - 1)

\* cleanupConsumedTransaction: the merge of the structs after beforeClock.
RECURSIVE MergeChanged(_, _, _)
MergeChanged(structs, i, firstChangePos) ==
  IF i < firstChangePos THEN structs
  ELSE LET r == TryToMergeWithLefts(structs, i)
       IN MergeChanged(r.structs, i - (1 + r.merged), firstChangePos)

\* cleanupConsumedTransaction: the merge around the structs of
\* transaction._mergeStructs, from the last one to the first.
RECURSIVE MergeMergeStructs(_, _, _)
MergeMergeStructs(structs, mergeStructs, i) ==
  IF i = 0 THEN structs
  ELSE LET replacedStructPos == FindIndexSS(structs, mergeStructs[i])
           r1 == IF replacedStructPos + 1 < Len(structs)
                 THEN TryToMergeWithLefts(structs, replacedStructPos + 1)
                 ELSE [structs |-> structs, merged |-> 0]
           r2 == IF r1.merged > 1 \/ replacedStructPos = 0 THEN r1
                 ELSE TryToMergeWithLefts(r1.structs, replacedStructPos)
       IN MergeMergeStructs(r2.structs, mergeStructs, i - 1)

MergePass(structs, ds, beforeClock, mergeStructs) ==
  LET s1 == TryMergeDeleteSet(structs, ds, Len(ds))
      s2 == IF beforeClock # EndClock(s1)
            THEN MergeChanged(s1, Len(s1) - 1, Max({FindIndexSS(s1, beforeClock), 1}))
            ELSE s1
  IN MergeMergeStructs(s2, mergeStructs, Len(mergeStructs))

\* splitItem(transaction, leftItem, 1): the right part continues the left
\* one and is noted in transaction._mergeStructs.
SplitItem(structs, i) ==
  IF i = 0 THEN structs
  ELSE SubSeq(structs, 1, i - 1)
       \o <<[structs[i] EXCEPT !.len = 1],
            [structs[i] EXCEPT !.len = @ - 1, !.clock = @ + 1, !.link = TRUE]>>
       \o SubSeq(structs, i + 1, Len(structs))

\* The inputs: a struct list, the delete set of the transaction (ranges
\* of deleted Items) and the clock before the transaction.
\* A transaction on the block ends: it added the structs `new`, split the
\* item with index sp (0: none) to delete a part of it, and deleted the
\* items with indices in D; then garbage is collected and the merge pass
\* runs.  `again` is the list after one more merge pass.
EndOfTransaction(new, sp, D) ==
  LET old == probe.structs
      q == SplitItem(old \o Place(new, EndClock(old)), sp)
      mergeStructs == IF sp = 0 THEN <<>> ELSE <<q[sp + 1].clock>>
      q1 == [i \in DOMAIN q |-> IF i \in D THEN [q[i] EXCEPT !.deleted = TRUE] ELSE q[i]]
      ds == DeleteItems(q1, D \cup {i \in DOMAIN q : q[i].clock >= EndClock(old)
                                                     /\ q[i].deleted /\ ~q[i].gc}, 1)
      out == MergePass(TryGcDeleteSet(q1, ds), ds, EndClock(old), mergeStructs)
  IN /\ new # <<>> \/ D # {}
     /\ sp # 0 => (sp \in D) # (sp + 1 \in D)
     /\ probe' = [structs |-> out, pre |-> q1, ds |-> ds, beforeClock |-> EndClock(old),
                  mergeStructs |-> mergeStructs,
                  again |-> MergePass(out, ds, EndClock(old), mergeStructs),
                  made |-> probe.made + Len(new)]
     /\ UNCHANGED <<store, net, depth, last, hist>>

InitMerge ==
  /\ store = <<>> /\ net = <<>> /\ depth = <<>> /\ last = <<>> /\ hist = <<>>
  /\ probe = [structs |-> <<>>, pre |-> <<>>, ds |-> <<>>, beforeClock |-> 0,
              mergeStructs |-> <<>>, again |-> <<>>, made |-> 0]

NextMerge ==
  \E n \in 0..(MaxStructs - probe.made) : \E new \in [1..n -> Shapes] :
    LET q == probe.structs \o new IN
    \E sp \in {0} \cup {i \in DOMAIN q : ~q[i].deleted /\ ~q[i].gc /\ q[i].len > 1} :
      LET q1 == SplitItem(q, sp) IN
      \E D \in SUBSET {i \in DOMAIN q1 : ~q1[i].deleted /\ ~q1[i].gc} :
        EndOfTransaction(new, sp, D)

SpecMerge == InitMerge /\ [][NextMerge]_vars

\* The block registry of a store.  A block object is told from every
\* other by the number `serial` of its construction; store.blocks maps ids
\* to block objects, store.roots owners to root blocks.
MaxBlocks == 3
Owners == {1, 2}
GetRootId(owner) == 20 + owner
GenerateNewBlockId(serial) == 10 + serial
GivenIds == {1, 2, GetRootId(1)}
NoId == 0

NewNanoBlock(id, type, isRoot, serial) ==
  [id |-> IF id = NoId THEN GenerateNewBlockId(serial) ELSE id, blockType |-> type,
   isRoot |-> isRoot, serial |-> serial]

\* createBlock that registers the block under the id it was asked for.
NanoStoreCreateBlockAsAsked(reg, type, id) ==
  LET block == NewNanoBlock(NoId, type, FALSE, reg.made + 1)
  IN [reg EXCEPT !.blocks = (id :> block) @@ @, !.made = @ + 1, !.ret = block]

\* NanoStore.createBlock(type, id)
NanoStoreCreateBlock(reg, type, id) ==
  LET block == NewNanoBlock(id, type, FALSE, reg.made + 1)
  IN [reg EXCEPT !.blocks = (block.id :> block) @@ @, !.made = @ + 1, !.ret = block]

\* NanoStore.getOrCreateBlock(id, type)
NanoStoreGetOrCreateBlock(reg, id, type) ==
  IF id \in DOMAIN reg.blocks THEN [reg EXCEPT !.ret = reg.blocks[id]]
  ELSE NanoStoreCreateBlock(reg, type, id)

\* NanoStore.setRootBlock(owner, blockType)
SetRootBlock(reg, owner, type) ==
  IF owner \in DOMAIN reg.roots THEN [reg EXCEPT !.ret = reg.roots[owner]]
  ELSE LET block == NewNanoBlock(GetRootId(owner), type, TRUE, reg.made + 1)
       IN [reg EXCEPT !.roots = (owner :> block) @@ @,
                      !.blocks = (block.id :> block) @@ @,
                      !.made = @ + 1, !.ret = block]

NoBlockObject == [id |-> NoId, blockType |-> "map", isRoot |-> FALSE, serial |-> 0]

RegistryCall(call, id, type, owner) ==
  LET reg == [probe EXCEPT !.call = call, !.arg = IF call = "setRootBlock" THEN owner ELSE id,
                           !.type = type, !.was = probe.blocks]
  IN /\ probe.made < MaxBlocks \/ (call = "getOrCreateBlock" /\ id \in DOMAIN probe.blocks)
                                \/ (call = "setRootBlock" /\ owner \in DOMAIN probe.roots)
     /\ probe' = CASE call = "getOrCreateBlock" -> NanoStoreGetOrCreateBlock(reg, id, type)
                   [] call = "createBlock" -> NanoStoreCreateBlock(reg, type, id)
                   [] call = "setRootBlock" -> SetRootBlock(reg, owner, type)
     /\ UNCHANGED <<store, net, depth, last, hist>>

InitRegistry ==
  /\ store = <<>> /\ net = <<>> /\ depth = <<>> /\ last = <<>> /\ hist = <<>>
  /\ probe = [blocks |-> <<>>, roots |-> <<>>, made |-> 0, call |-> "none", arg |-> NoId,
              type |-> "map", was |-> <<>>, ret |-> NoBlockObject]

NextRegistry ==
  \/ \E id \in GivenIds, type \in BlockTypeNames : RegistryCall("getOrCreateBlock", id, type, 0)
  \/ \E id \in GivenIds \cup {NoId}, type \in BlockTypeNames :
       RegistryCall("createBlock", id, type, 0)
  \/ \E owner \in Owners, type \in BlockTypeNames : RegistryCall("setRootBlock", NoId, type, owner)

SpecRegistry == InitRegistry /\ [][NextRegistry]_vars

\* Garbage collection under the gc flag and the gcFilter of the block.
\* A filter is given by the clocks of the items it rejects.
MaxClock == MaxStructs * MaxLength
GcFilters == {{}, {1}, 0..MaxClock}

InDeleteSet(ds, struct) ==
  \E d \in DOMAIN ds : ds[d].clock <= struct.clock /\ struct.clock < ds[d].clock + ds[d].len

\* tryGcDeleteSet that collects kept items too.
TryGcDeleteSetOfKept(structs, ds, reject) ==
  [i \in DOMAIN structs |->
     IF /\ InDeleteSet(ds, structs[i])
        /\ ~structs[i].gc /\ structs[i].deleted /\ structs[i].clock \notin reject
     THEN [structs[i] EXCEPT !.content = "deleted"]
     ELSE structs[i]]

\* tryGcDeleteSet(ds, store, gcFilter)
TryGcDeleteSetFiltered(structs, ds, reject) ==
  [i \in DOMAIN structs |->
     IF /\ InDeleteSet(ds, structs[i])
        /\ ~structs[i].gc /\ structs[i].deleted /\ ~structs[i].keep
        /\ structs[i].clock \notin reject
     THEN [structs[i] EXCEPT !.content = "deleted"]
     ELSE structs[i]]

\* cleanupConsumedTransaction: if (block.gc) tryGcDeleteSet(ds, structStore, block.gcFilter)
GcOfTransaction(structs, ds, gc, reject) ==
  IF gc THEN TryGcDeleteSetFiltered(structs, ds, reject) ELSE structs

\* A transaction on a block ends: it added the structs `new` and deleted
\* the items with indices in D; the application has set block.gc to gc.
\* gcd is the struct list between tryGcDeleteSet and the merge pass.
EndOfTransactionGc(new, D, gc) ==
  LET old == probe.structs
      q == old \o Place(new, EndClock(old))
      q1 == [i \in DOMAIN q |-> IF i \in D THEN [q[i] EXCEPT !.deleted = TRUE] ELSE q[i]]
      ds == DeleteItems(q1, D \cup {i \in DOMAIN q : q[i].clock >= EndClock(old)
                                                     /\ q[i].deleted /\ ~q[i].gc}, 1)
      gcd == GcOfTransaction(q1, ds, gc, probe.reject)
  IN /\ new # <<>> \/ D # {}
     /\ probe' = [probe EXCEPT !.structs = MergePass(gcd, ds, EndClock(old), <<>>),
                                !.gcd = gcd, !.pre = q1, !.ds = ds, !.gc = gc,
                                !.made = @ + Len(new)]
     /\ UNCHANGED <<store, net, depth, last, hist>>

InitGc ==
  /\ store = <<>> /\ net = <<>> /\ depth = <<>> /\ last = <<>> /\ hist = <<>>
  /\ \E reject \in GcFilters :
       probe = [structs |-> <<>>, gcd |-> <<>>, pre |-> <<>>, ds |-> <<>>, gc |-> TRUE,
                reject |-> reject, made |-> 0]

NextGc ==
  \E n \in 0..(MaxStructs - probe.made) : \E new \in [1..n -> Shapes] :
    \E D \in SUBSET {i \in DOMAIN (probe.structs \o new) :
                       ~(probe.structs \o new)[i].deleted /\ ~(probe.structs \o new)[i].gc} :
      \E gc \in BOOLEAN : EndOfTransactionGc(new, D, gc)

SpecGc == InitGc /\ [][NextGc]_vars

\* -------------------------------------------------------------- properties
ItemsOf(st) ==
  UNION {{<<bc[1], bc[2], k>> : k \in 0..(Len(st.blocks[bc[1]].structs[bc[2]]) - 1)} :
           bc \in (DOMAIN st.blocks) \X Clients}

IsLiveRef(st, r) ==
  LET it == GetItem(st, r) IN ~it.deleted /\ it.content.kind = "ref"

LiveRefsTo(st, B) ==
  {r \in ItemsOf(st) : IsLiveRef(st, r) /\ GetItem(st, r).content.blockId = B}

Drained(s) == store[s].ctl = "ok" /\ store[s].queue = <<>> /\ store[s].cur = 0

\* What block.getType().get(k) reads for every key, Refs followed.
RECURSIVE View(_, _, _)
View(st, b, fuel) ==
  [k \in Keys |->
     LET h == IF fuel = 0 \/ b \notin DOMAIN st.blocks THEN NullId
              ELSE MapHead(st.blocks[b], k)
     IN IF h = NullId THEN <<"none">>
        ELSE LET it == GetItem(st, Ref(b, h)) IN
             IF it.deleted \/ ~Countable(it) THEN <<"none">>
             ELSE IF it.content.kind = "ref"
             THEN <<"ref", View(st, it.content.blockId, fuel - 1)>>
             ELSE <<"any", it.content.val>>]

Contents(st, b) == View(st, b, CallDepth(st))

\* The key k of block P holds a live Ref to a block that did not exist in
\* blocks0 and is not B.
HoldsNewBlock(st, P, k, B, blocks0) ==
  LET h == MapHead(st.blocks[P], k) IN
  /\ h # NullId
  /\ IsLiveRef(st, Ref(P, h))
  /\ GetItem(st, Ref(P, h)).content.blockId \notin blocks0 \cup {B}

HeldBlock(st, P, k) == GetItem(st, Ref(P, MapHead(st.blocks[P], k))).content.blockId

ReadsUndefined(st, P, k) ==
  LET h == MapHead(st.blocks[P], k) IN
  h = NullId \/ GetItem(st, Ref(P, h)).deleted

Unrefs(st, b) ==
  IF b \in DOMAIN st.blocks
  THEN {Ref(b, st.blocks[b].chains[<<UnrefsType, NoKey>>][j]) :
          j \in 1..Len(st.blocks[b].chains[<<UnrefsType, NoKey>>])}
  ELSE {}

C2_Acyclic ==
  \A s \in Stores : (store[s].ctl = "ok" /\ store[s].cur = 0 /\ depth[s] = 0) =>
    \A b \in DOMAIN store[s].blocks :
      WalkReferrers(store[s], b, NoBlock, CallDepth(store[s])) # "loop"

\* C3: no root block is the target of a Ref: its _referrer stays null, no
\* live Ref names it, and embedding the type of a root block throws.
C3_RootNeverTarget ==
  /\ \A s \in Stores : /\ store[s].blocks[RootId]._referrer = NullRef
                       /\ LiveRefsTo(store[s], RootId) = {}
  /\ (last.kind = "ref" /\ last.T = RootId) => last.threw

\* A transaction that is one local insertion of a Ref to block T at key k
\* of block P, T having a live referrer other than the new item.
C4_Conflict ==
  /\ last.kind = "ref" /\ last.depth = 0 /\ ~last.hung
  /\ last.ref0 # NullRef /\ last.ref0 # last.item

C4_Replaced(st) ==
  /\ st.blocks[last.T]._referrer = last.ref0
  /\ GetItem(st, last.item).deleted
  /\ HoldsNewBlock(st, last.P, last.k, last.T, last.blocks0)

C4_SameContents(st) ==
  Contents(st, HeldBlock(st, last.P, last.k)) = Contents(st, last.T)

Exchanged ==
  /\ \A s \in Stores : Drained(s) /\ net[s] = <<>> /\ depth[s] = 0
  /\ Len(hist) >= 3
  /\ hist[1][2] = "ref" /\ hist[3][2] = "ref" /\ hist[2][2] = "deliver"
  /\ hist[1][1] # hist[3][1] /\ hist[2][1] = hist[3][1]
  /\ hist[1][5] = hist[3][5] /\ hist[1][3] # hist[1][5]
  /\ \A j \in 4..Len(hist) : hist[j][2] = "deliver"

SameKey == hist[1][3] = hist[3][3] /\ hist[1][4] = hist[3][4]

Converged ==
  /\ DOMAIN store[1].blocks = DOMAIN store[2].blocks
  /\ \A b \in DOMAIN store[1].blocks :
       EncodeStateAsUpdate(store[1].blocks[b]) = EncodeStateAsUpdate(store[2].blocks[b])

C6_OneSurvivor ==
  \A s \in Stores : Cardinality(LiveRefsTo(store[s], hist[1][5])) = 1

C6_LoserCloned ==
  \A s \in Stores :
    /\ HoldsNewBlock(store[s], hist[3][3], hist[3][4], hist[3][5], UserBlocks)
    /\ hist[3][3] # hist[3][5] =>
         Contents(store[s], HeldBlock(store[s], hist[3][3], hist[3][4]))
           = Contents(store[s], hist[3][5])

C7_Cycle == last.kind = "ref" /\ last.depth = 0 /\ ~last.hung /\ last.walk0 = "found"

C7_Removed(st) ==
  /\ GetItem(st, last.item).deleted
  /\ ReadsUndefined(st, last.P, last.k)
  /\ st.blocks[last.T]._referrer # last.item

IsLocal(kind) == kind \in {"set", "ref", "new", "del"}

\* C8: every deletion of a Ref item r of block P in a local transaction
\* appends exactly one Unref to P's "_unrefs", with blockId = r's target,
\* client = r.id.client and clock = r.id.clock.
C8_UnrefPerDeletion ==
  [][(IsLocal(last'.kind) /\ last'.depth = 0 /\ ~last'.hung) =>
       \A r \in ItemsOf(store[last'.s]) :
         (IsLiveRef(store[last'.s], r) /\ GetItem(store'[last'.s], r).deleted) =>
           LET new == Unrefs(store'[last'.s], r[1]) \ Unrefs(store[last'.s], r[1])
               mine == {u \in new :
                          LET c == GetItem(store'[last'.s], u).content
                          IN /\ c.blockId = GetItem(store[last'.s], r).content.blockId
                             /\ c.client = r[2] /\ c.clock = r[3]}
           IN Cardinality(mine) = 1]_vars

\* The ids of the items that an update carries for block b.
Carried(msg, b) ==
  UNION {UNION {{<<b, c, msg[i].update.from[c] + j - 1>> :
                    j \in 1..Len(msg[i].update.items[c])} : c \in Clients} :
           i \in {i \in 1..Len(msg) : msg[i].block = b}}

\* C9: applying a remote update creates no Unref on the receiver: every
\* item that "_unrefs" of a block gains is an item of the update.
C9_NoUnrefOnReceive ==
  [][last'.kind = "deliver" =>
       \A b \in DOMAIN store'[last'.s].blocks :
         (Unrefs(store'[last'.s], b) \ Unrefs(store[last'.s], b))
           \subseteq Carried(Head(net[Peer(last'.s)]), b)]_vars

Nested(s) == depth[s] >= 1

KeepsTransactions(s) ==
  /\ Len(store'[s].queue) = Len(store[s].queue)
  /\ store'[s].cur = store[s].cur
  /\ \A b \in DOMAIN store[s].blocks :
       store[s].blocks[b]._transaction # 0 =>
         /\ store'[s].blocks[b]._transaction = store[s].blocks[b]._transaction
         /\ store'[s].queue[1].blockTransactions[store[s].blocks[b]._transaction].block = b
  /\ \A i, j \in 1..Len(store'[s].queue[1].blockTransactions) :
       store'[s].queue[1].blockTransactions[i].block
         = store'[s].queue[1].blockTransactions[j].block => i = j
  /\ store'[s].ncl = 0
  /\ net' = net

\* C10: a transact call made while a store transaction is active creates
\* no StoreTransaction, every block keeps the one Transaction it has, and
\* no cleanup runs; the cleanup runs once, when the outermost call exits.
C10_NestedTransact ==
  [][/\ (Nested(last'.s) /\ last'.kind = "begin") => KeepsTransactions(last'.s)
     /\ (Nested(last'.s) /\ IsLocal(last'.kind) /\ ~last'.threw /\ ~last'.hung)
          => KeepsTransactions(last'.s)
     /\ (depth[last'.s] >= 2 /\ last'.kind = "end") => KeepsTransactions(last'.s)
     /\ (depth[last'.s] = 1 /\ last'.kind = "end" /\ ~last'.threw /\ ~last'.hung)
          => /\ store'[last'.s].ncl = 1
             /\ store'[last'.s].cur = 0
             /\ store'[last'.s].queue = <<>>]_vars

C10_Witness ==
  /\ last.kind = "begin" /\ last.depth = 1 /\ last.P = RootId
  /\ store[1].cur = 1 /\ Len(store[1].queue) = 1
  /\ store[1].blocks[RootId]._transaction = 1
  /\ store[1].nops >= 1


\* ------------------------------------------------ cleanup queue (C11..C17)
\* The steps of the cleanup of one store transaction, as logged.
RoundEvents ==
  {"resolveBlockRefs", "blockRefsResolved", "beforeObserverCalls", "observer", "deepObserver", "afterTransaction",
   "rootObservers", "gc", "merge", "afterTransactionCleanup",
   "storeAfterTransactionCleanup", "updateV2"}

At(L, e, i) == {n \in DOMAIN L : L[n].e = e /\ L[n].i = i}
Returned(s) == store[s].ctl = "ok" /\ depth[s] = 0 /\ store[s].stack = <<>>

\* The transaction at queue position i was cleaned up, after every step of
\* the transactions before it and before every step of those after it.
CleanedInTurn(L, i) ==
  \E a \in At(L, "resolveBlockRefs", i) : \E b \in At(L, "updateV2", i) :
    /\ a < b
    /\ \A m \in DOMAIN L : L[m].e \in RoundEvents =>
         /\ L[m].i < i => m < a
         /\ L[m].i = i => a <= m /\ m <= b
         /\ L[m].i > i => b < m

\* C11: a store transaction that a listener starts while the cleanup runs
\* is appended to the queue and cleaned up in its turn, after the cleanup
\* of the transactions before it, before the outermost transact call
\* returns, which leaves the queue empty.
C11_ListenerTransactionsCleaned ==
  \A s \in Stores : Returned(s) =>
    /\ store[s].queue = <<>>
    /\ \A n \in DOMAIN store[s].log :
         LET ev == store[s].log[n] IN
         (ev.e = "beforeTransaction" /\ ev.t = "observer") =>
           /\ ev.i > 1
           /\ CleanedInTurn(store[s].log, ev.i)


\* C12: on a block without a store, afterTransaction fires exactly once
\* for every transaction, in the order the transactions were created: the
\* origins the listener saw are the origins of the transactions created,
\* also of those the listener opened itself, and none is left in the queue.
C12_AfterTransactionInOrder ==
  probe # <<>> =>
    /\ probe.origins = probe.created
    /\ probe._transactionCleanups = <<>>
    /\ probe._transaction = 0

\* The listener of the test: a read that creates a 'cleanup' transaction,
\* then a nested transact, on the first event only.
C12_Witness ==
  /\ probe # <<>>
  /\ probe.prog = <<"cleanup", "nested">> /\ probe.limit = 1
  /\ probe.created = <<"first">> \o probe.prog
  /\ probe.origins = <<"first", "cleanup", "nested">>


\* The step of the cleanup pipeline that an entry of the log belongs to.
Phase(e) ==
  IF e \in {"resolveBlockRefs", "blockRefsResolved"} THEN 1
  ELSE IF e \in {"beforeObserverCalls", "observer", "deepObserver", "afterTransaction"} THEN 2
  ELSE IF e = "rootObservers" THEN 3
  ELSE IF e \in {"gc", "merge", "afterTransactionCleanup"} THEN 4
  ELSE 5

BlocksOf(L, e, i) == {L[n].b : n \in At(L, e, i)}

\* C13: the cleanup of one store transaction runs its steps in the order
\* ref-conflict resolution, observer calls and afterTransaction of every
\* block, root observers, GC and merging of every block, store
\* afterTransactionCleanup and update emission; a step has finished for
\* all blocks of the transaction before the next one begins.
C13_PipelineOrder ==
  \A s \in Stores : Returned(s) =>
    LET L == store[s].log IN
    /\ \A m, n \in DOMAIN L :
         (m < n /\ L[m].i = L[n].i /\ L[m].e \in RoundEvents /\ L[n].e \in RoundEvents)
           => Phase(L[m].e) <= Phase(L[n].e)
    /\ \A n \in DOMAIN L : L[n].e = "updateV2" =>
         LET i == L[n].i IN
         /\ At(L, "resolveBlockRefs", i) # {} /\ At(L, "blockRefsResolved", i) # {}
         /\ At(L, "rootObservers", i) # {}
         /\ At(L, "storeAfterTransactionCleanup", i) # {}
         /\ BlocksOf(L, "afterTransaction", i) = BlocksOf(L, "beforeObserverCalls", i)
         /\ BlocksOf(L, "afterTransaction", i) = BlocksOf(L, "gc", i)
         /\ BlocksOf(L, "afterTransaction", i) = BlocksOf(L, "afterTransactionCleanup", i)

\* A cleanup that resolved a conflict and whose transaction changed more
\* than one block.
C13_Witness ==
  \E s \in Stores : Returned(s) /\
    LET L == store[s].log IN
    /\ \E n \in DOMAIN L : L[n].e = "beforeTransaction" /\ L[n].t = "conflict"
    /\ \E i \in 1..2 : Cardinality(BlocksOf(L, "afterTransaction", i)) > 1
                        /\ At(L, "updateV2", i) # {}


Types(calls, e) ==
  LET q == SelectSeq(calls, LAMBDA c : c.e = e) IN [n \in DOMAIN q |-> q[n].t]

\* The calls of one dispatch: the shallow observers of the changed types
\* whose item is not deleted, in the order of changed; then the deep
\* observers, each with its events in ascending path length.
DispatchInOrder(p) ==
  /\ Types(p.calls, "observer") = SelectSeq(p.changed, LAMBDA t : ItemAlive(p.ty, t))
  /\ \A m, n \in DOMAIN p.calls :
       (p.calls[m].e = "deepObserver" /\ p.calls[n].e = "observer") => n < m
  /\ \A n \in DOMAIN p.calls :
       LET c == p.calls[n] IN
       c.e = "deepObserver" =>
         /\ c.t \in p.deh
         /\ \A a, b \in DOMAIN c.events :
              a < b => PathLength(p.ty, c.t, c.events[a]) <= PathLength(p.ty, c.t, c.events[b])

\* The log of one block transaction of a store: beforeObserverCalls, the
\* shallow observers, the deep observers, afterTransaction; and the
\* afterTransaction of every block before the store's event.
LoggedInOrder(L) ==
  \A n \in DOMAIN L : L[n].e = "afterTransaction" =>
    /\ \E m \in 1..(n - 1) : L[m].e = "beforeObserverCalls" /\ L[m].i = L[n].i /\ L[m].b = L[n].b
    /\ \A m \in DOMAIN L :
         (L[m].i = L[n].i /\ L[m].b = L[n].b) =>
           /\ L[m].e \in {"beforeObserverCalls", "observer", "deepObserver"} => m < n
           /\ L[m].e \in {"observer", "deepObserver"} =>
                \E k \in 1..(m - 1) : L[k].e = "beforeObserverCalls" /\ L[k].i = L[n].i
                                       /\ L[k].b = L[n].b
           /\ L[m].e = "deepObserver" =>
                \A k \in DOMAIN L : (L[k].e = "observer" /\ L[k].i = L[n].i /\ L[k].b = L[n].b)
                                      => k < m
    /\ \A m \in DOMAIN L :
         (L[m].e = "storeAfterTransactionCleanup" /\ L[m].i = L[n].i) => n < m

\* C14: one per-block dispatch fires beforeObserverCalls, the shallow
\* observers of the changed types in insertion order without the types
\* whose embedding item is deleted, the deep observers with their events
\* in ascending path length, then afterTransaction; the afterTransaction
\* of every block precedes the afterTransactionCleanup of the store.
C14_DispatchOrder ==
  /\ (probe # <<>> /\ probe.done) => DispatchInOrder(probe)
  /\ \A s \in Stores : Returned(s) => LoggedInOrder(store[s].log)

\* A dispatch that skipped a deleted type and had to reorder the events
\* of the root type.
C14_Witness ==
  /\ probe # <<>> /\ probe.done
  /\ probe.changed = <<"y", "x", RootType>>
  /\ probe.ty["x"].deleted = FALSE /\ probe.ty["y"].deleted = TRUE
  /\ \E n \in DOMAIN probe.calls :
       probe.calls[n] = [e |-> "deepObserver", t |-> RootType, events |-> <<RootType, "x">>]


\* The block transactions of the store transaction that is open on s.
OpenTransactions(s) ==
  LET q == store[s].queue[store[s].cur].blockTransactions IN {q[j] : j \in DOMAIN q}

HasContent(s, tr) ==
  \/ tr.deleteSet # {}
  \/ \E c \in Clients : GetState(store[s].blocks[tr.block], c) # tr.beforeState[c]

\* What the blocks held before a step they still hold after it.
NotRolledBack(s) ==
  \A b \in DOMAIN store[s].blocks :
    /\ b \in DOMAIN store'[s].blocks
    /\ \A c \in Clients : \A k \in DOMAIN store[s].blocks[b].structs[c] :
         /\ k \in DOMAIN store'[s].blocks[b].structs[c]
         /\ store'[s].blocks[b].structs[c][k].id = store[s].blocks[b].structs[c][k].id
         /\ store[s].blocks[b].structs[c][k].deleted => store'[s].blocks[b].structs[c][k].deleted
    /\ \A ck \in DOMAIN store[s].blocks[b].chains :
         LET q == store[s].blocks[b].chains[ck]
             r == store'[s].blocks[b].chains[ck]
         IN Len(q) <= Len(r) /\ SubSeq(r, 1, Len(q)) = q

\* C15: when the closure of the outermost transact throws, the cleanup
\* still runs for what was changed before (the observers of the changed
\* types and afterTransaction fire, the update is emitted), nothing is
\* rolled back, the transaction markers of the store and of the blocks
\* are reset, and the exception reaches the caller.
C15_ThrowingClosure ==
  [][(last'.kind = "raise" /\ ~last'.hung) =>
       LET s == last'.s
           L == store'[s].log
       IN /\ \A tr \in OpenTransactions(s) :
               /\ \A n \in DOMAIN tr.changed :
                    Ev("observer", 1, tr.block, tr.changed[n]) \in {L[m] : m \in DOMAIN L}
               /\ Ev("afterTransaction", 1, tr.block, NoType) \in {L[m] : m \in DOMAIN L}
          /\ Ev("updateV2", 1, NoBlock,
                {tr.block : tr \in {x \in OpenTransactions(s) : HasContent(s, x)}})
               \in {L[m] : m \in DOMAIN L}
          /\ (\E tr \in OpenTransactions(s) : HasContent(s, tr)) => Len(net'[s]) > Len(net[s])
          /\ NotRolledBack(s)
          /\ store'[s].cur = 0 /\ store'[s].queue = <<>>
          /\ \A b \in DOMAIN store'[s].blocks : store'[s].blocks[b]._transaction = 0
          /\ last'.threw]_vars

\* A closure that threw after it had set a key: the observer of the root
\* type was called and the update went out.
C15_Witness ==
  /\ last.kind = "raise" /\ last.threw
  /\ \E n \in DOMAIN store[1].log :
       store[1].log[n].e = "observer" /\ store[1].log[n].t = RootType
  /\ \E n \in DOMAIN store[1].log :
       store[1].log[n].e = "updateV2" /\ store[1].log[n].t # {}
  /\ net[1] # <<>>


Logged(L) == {L[m] : m \in DOMAIN L}

ChangedBlocks(s) ==
  {b \in DOMAIN store'[s].blocks :
     \E c \in Clients :
       LET new == store'[s].blocks[b].structs[c]
           old == IF b \in DOMAIN store[s].blocks THEN store[s].blocks[b].structs[c] ELSE <<>>
       IN \/ Len(new) # Len(old)
          \/ \E k \in DOMAIN old : new[k].deleted /\ ~old[k].deleted}

\* C17: every store transaction cleaned up emits exactly one updateV2
\* event of the store, after the store's afterTransactionCleanup event;
\* the maps of the events name a block exactly when its transaction
\* deleted something or advanced a clock.
C17_OneUpdatePerTransaction ==
  [][(last'.s \in Stores /\ ~last'.hung /\ store'[last'.s].queue = <<>>) =>
       LET s == last'.s
           L == store'[s].log
       IN /\ \A n \in DOMAIN L : L[n].e = "resolveBlockRefs" =>
               /\ Cardinality(At(L, "updateV2", L[n].i)) = 1
               /\ Cardinality(At(L, "storeAfterTransactionCleanup", L[n].i)) = 1
               /\ \A a \in At(L, "storeAfterTransactionCleanup", L[n].i) :
                    \A b \in At(L, "updateV2", L[n].i) : a < b
          /\ UNION {L[n].t : n \in {m \in DOMAIN L : L[m].e = "updateV2"}} = ChangedBlocks(s)
          /\ Len(net'[s]) - Len(net[s])
               = Cardinality({n \in DOMAIN L : L[n].e = "updateV2" /\ L[n].t # {}})]_vars

\* A transaction that only deleted: set and delete of a key of block 1;
\* the one update of the deletion names block 1.
C17_Witness ==
  /\ hist = <<<<1, "set", 1, "a", NoBlock>>, <<1, "del", 1, "a", NoBlock>>>>
  /\ Cardinality({n \in DOMAIN store[1].log : store[1].log[n].e = "updateV2"}) = 1
  /\ \E n \in DOMAIN store[1].log : store[1].log[n].e = "updateV2" /\ store[1].log[n].t = {1}
  /\ Len(net[1]) = 2


\* C18: once the cleanup of a non-local transaction has found the local
\* client id in use by another peer, the store has a fresh client id and
\* every block of the store, existing or created later, uses it.
C18_StoreClientIdReplaced ==
  \A s \in Stores : (Returned(s) /\ store[s].ngen > 0) =>
    /\ store[s].clientID # ClashId
    /\ \A b \in DOMAIN store[s].blocks : store[s].blocks[b].clientID = store[s].clientID


UnrefItems(st) == {r \in ItemsOf(st) : GetItem(st, r).content.kind = "unref"}

\* C19: an item with Unref content has keep = true from its integration
\* on, and no cleanup replaces it by a GC struct: it is an Unref item
\* with keep = true ever after, deleted or not.
C19_UnrefNeverCollected ==
  [][\A s \in Stores :
       /\ \A r \in UnrefItems(store[s]) : GetItem(store[s], r).keep
       /\ \A r \in UnrefItems(store'[s]) : GetItem(store'[s], r).keep
       /\ UnrefItems(store[s]) \subseteq UnrefItems(store'[s])]_vars

\* An Unref item that was deleted, after the cleanup that collected the
\* garbage of its block.
C19_Witness ==
  \E s \in Stores : Returned(s) /\ last.s = s /\ last.kind = "delUnref" /\
    \E r \in UnrefItems(store[s]) :
      /\ GetItem(store[s], r).deleted
      /\ Ev("gc", 1, r[1], NoType) \in Logged(store[s].log)
      /\ \E n \in DOMAIN store[s].log :
           store[s].log[n].e = "updateV2" /\ r[1] \in store[s].log[n].t


Contiguous(structs) ==
  /\ structs # <<>> => structs[1].clock = 0
  /\ \A i \in 1..(Len(structs) - 1) : structs[i + 1].clock = structs[i].clock + structs[i].len

\* C20: GC and merging at the end of a transaction leave the struct list
\* of a client sorted by clock and covering the same contiguous clock
\* range as before, and a second merge pass changes nothing.
C20_MergeKeepsRange ==
  /\ Contiguous(probe.structs)
  /\ EndClock(probe.structs) = EndClock(probe.pre)
  /\ probe.again = probe.structs

\* Three Ref items that continue each other are deleted in one
\* transaction: their content is collected and they collapse into one
\* struct.
C20_Witness ==
  /\ Len(probe.pre) = 3 /\ Len(probe.ds) = 1 /\ probe.ds[1].clock = 0
  /\ \A i \in 1..3 : probe.pre[i].content = "ref" /\ probe.pre[i].deleted
  /\ Len(probe.structs) = 1 /\ probe.structs[1].content = "deleted"
  /\ probe.structs[1].len = EndClock(probe.pre)


\* Whether the chain of referrers of block b ends, at a root or at a
\* block without referrer.
RECURSIVE ChainEnds(_, _, _)
ChainEnds(st, b, fuel) ==
  \/ st.blocks[b].isRoot
  \/ st.blocks[b]._referrer = NullRef
  \/ fuel > 0 /\ ChainEnds(st, st.blocks[b]._referrer[1], fuel - 1)

\* The root block at the top of a chain of referrers that ends: b when it
\* is a root, NoBlock when the chain ends at a block that is not a root.
RECURSIVE TopOfChain(_, _)
TopOfChain(st, b) ==
  IF st.blocks[b].isRoot THEN b
  ELSE IF st.blocks[b]._referrer = NullRef THEN NoBlock
  ELSE TopOfChain(st, st.blocks[b]._referrer[1])

\* C21: getRootBlock() of a block returns the block itself if it is a
\* root, otherwise the root at the top of its current chain of referrers,
\* and null when the chain ends at a block that is not a root and has no
\* referrer, also after the referrer of the block was removed or replaced
\* since an earlier call.
C21_RootOfCurrentChain ==
  [][\A b \in UserBlocks :
        (RootOf(1, b) /\ ~probe'.threw /\ ChainEnds(store[1], b, CallDepth(store[1])))
          => probe'.root = TopOfChain(store'[1], b)]_vars


\* The step is the call of clone() on block b of store s that made block n.
IsClone(s, b, n) == hist' = Append(hist, <<s, "clone", b, NoKey, n>>)

\* What is kept of a block apart from the transaction it takes part in.
Kept(blk) == [blk EXCEPT !._transaction = 0]

\* C22 as stated: clone() returns a new block of the same store and block
\* type, with an id no block had and no referrer, that holds the content
\* of the source; id, referrer and content (the items) of the source are
\* as before.
C22_AsStated ==
  [][\A b \in UserBlocks : \A n \in DOMAIN store'[1].blocks :
        (IsClone(1, b, n) /\ ~last'.threw /\ ~last'.hung) =>
          /\ n \notin DOMAIN store[1].blocks
          /\ store'[1].blocks[n].blockType = store[1].blocks[b].blockType
          /\ store'[1].blocks[n]._referrer = NullRef
          /\ Contents(store'[1], n) = Contents(store[1], b)
          /\ Kept(store'[1].blocks[b]) = Kept(store[1].blocks[b])]_vars


\* The step is a call that asks for a block with id and type.
IsCreate(id, type) ==
  /\ \E call \in {"createBlock", "getOrCreateBlock"} : Create(1, call, id, type)

\* C23: asking the store to create or get-or-create a block with an id
\* that is registered to a block of another block type produces an error
\* visible to the caller and leaves the registered block and its type
\* unchanged.
C23_TypeClashRejected ==
  [][\A id \in SharedIds : \A type \in BlockTypeNames :
        (IsCreate(id, type) /\ id \in DOMAIN store[1].blocks
                            /\ store[1].blocks[id].blockType # type)
          => /\ probe'.threw
             /\ store'[1].blocks[id] = store[1].blocks[id]]_vars


\* The items and the referrer of every block of a store.
ItemsAndReferrers(st) ==
  [b \in DOMAIN st.blocks |-> <<st.blocks[b].structs, st.blocks[b]._referrer>>]

\* The store after an exception that user code throws at this point: the
\* open transact calls are left and the cleanup of what they did runs.
AfterThrow(st) ==
  Run(Push(Throw(TransactInStoreEnter(Fresh(st), "user", TRUE)), <<[f |-> "exit"]>>))

\* C24: creating a Ref from a type that belongs to a block and is not the
\* root type of that block throws; no item is integrated and no block's
\* referrer changes as a result: items and referrers are those that the
\* exception alone leaves.
C24_NestedTypeRefThrows ==
  [][(Len(hist') = Len(hist) + 1 /\ Last(hist')[2] = "refUnrefs")
       => /\ last'.threw
          /\ depth[1] = 0 => ItemsAndReferrers(store'[1]) = ItemsAndReferrers(store[1])
          /\ ItemsAndReferrers(store'[1]) = ItemsAndReferrers(AfterThrow(store[1]))]_vars

\* The '_unrefs' array of a block that a live Ref embeds was given to
\* set() inside an open transact call; the block keeps its referrer.
C24_Witness ==
  /\ last.kind = "refUnrefs" /\ last.threw
  /\ last.ref0 # NullRef /\ last.depth > 0
  /\ store[1].blocks[last.T]._referrer = last.ref0


\* C25: setting the id of a block that already has an id is ignored: the
\* id, the registry of the store and everything else stay as they are and
\* nothing is thrown; a block whose id is unset takes the new id and is
\* then registered in store.blocks under it.
C25_SetIdOnce ==
  [][\A b \in UserBlocks \cup {NoBlock} : \A newId \in SharedIds \cup {UnusedId} :
        SetIdOf(1, b, newId) =>
          IF b # NoBlock \/ probe._id # NoBlock
          THEN store' = store /\ probe' = probe /\ store'[1].ctl = "ok"
          ELSE /\ probe'._id = newId
               /\ newId \in DOMAIN store'[1].blocks
               /\ store'[1].blocks[newId] = NanoBlock(TRUE, store[1].clientID)
               /\ \A c \in DOMAIN store[1].blocks \ {newId} :
                    c \in DOMAIN store'[1].blocks /\ store'[1].blocks[c] = store[1].blocks[c]]_vars

\* The block constructed without id was given an unused id, in a store
\* whose blocks user code has changed.
C25_Witness ==
  /\ probe._id = UnusedId
  /\ UnusedId \in DOMAIN store[1].blocks
  /\ hist # <<>>

\* The calls the traced peer made in its last operation, or since its
\* open store transaction began.
Calls == store[1].trace

RemoteRefIntegration(n) ==
  /\ Calls[n].f = "contentIntegrate"
  /\ Calls[n].item.content.kind = "ref"
  /\ ~Calls[n].local

\* Block b has item r as its referrer after call m and had not before it.
ReferrerWritten(m, b, r) ==
  /\ b \in DOMAIN Calls[m].post.refs
  /\ Calls[m].post.refs[b][1] = r
  /\ b \in DOMAIN Calls[m].pre.refs => Calls[m].pre.refs[b][1] # r

\* C26: the integration of a Ref in a non-local transaction leaves the
\* referrer of every block, the target included, as it was (null for a
\* target created by the call), adds the Ref to blockRefsAdded of the
\* transaction and caches the target block and type in the Ref; the
\* Ref becomes the referrer of a block only in the cleanup of the
\* transaction.
C26_RemoteIntegrateKeepsReferrer ==
  \A n \in DOMAIN Calls :
    RemoteRefIntegration(n) =>
      LET c == Calls[n]
          b == c.item.content.blockId
      IN /\ \A x \in DOMAIN c.pre.refs : c.post.refs[x] = c.pre.refs[x]
         /\ c.post.refs[b] = IF b \in DOMAIN c.pre.refs THEN c.pre.refs[b]
                              ELSE <<NullRef, NullRef>>
         /\ c.post.sets = [c.pre.sets EXCEPT ![c.cur][1] = AddOnce(@, c.r)]
         /\ c.item.content._block = b /\ c.item.content._type = b
         /\ \A m \in DOMAIN Calls : \A x \in DOMAIN Calls[m].post.refs :
              ReferrerWritten(m, x, c.r) => m > n /\ Calls[m].f = "cleanupLoop"

\* A Ref was integrated remotely while its target had another referrer,
\* and one became the referrer of its target in the cleanup.
C26_Witness ==
  /\ \E n \in DOMAIN Calls :
       /\ RemoteRefIntegration(n)
       /\ LET b == Calls[n].item.content.blockId IN
          b \in DOMAIN Calls[n].pre.refs /\ Calls[n].pre.refs[b][1] # NullRef
  /\ \E n, m \in DOMAIN Calls :
       /\ RemoteRefIntegration(n)
       /\ ReferrerWritten(m, Calls[n].item.content.blockId, Calls[n].r)
\* Call n deleted a Ref item that was not deleted.
RefDeletion(n) ==
  /\ Calls[n].f = "delete"
  /\ Calls[n].was.content.kind = "ref"
  /\ ~Calls[n].was.deleted

TargetOf(n) == Calls[n].was.content.blockId

\* C27: the deletion of a Ref item that is the referrer of its target
\* block makes it the previous referrer of the block, leaves the block
\* without referrer and clears the _block and _type the Ref cached; the
\* deletion of a Ref item that is not the referrer of its target leaves
\* the referrer and the previous referrer of the target as they were.
C27_RefDeleteClearsReferrer ==
  \A n \in DOMAIN Calls :
    (RefDeletion(n) /\ TargetOf(n) \in DOMAIN Calls[n].pre.refs) =>
      LET c == Calls[n]
          B == TargetOf(n)
      IN IF c.pre.refs[B][1] = c.r
         THEN /\ c.post.refs[B] = <<NullRef, c.r>>
              /\ c.item.content._block = NoBlock
              /\ c.item.content._type = NoBlock
         ELSE c.post.refs[B] = c.pre.refs[B]

\* The Ref item that is the referrer of its target, and has it cached,
\* was deleted.
C27_Witness ==
  \E n \in DOMAIN Calls :
    /\ RefDeletion(n) /\ TargetOf(n) \in DOMAIN Calls[n].pre.refs
    /\ Calls[n].pre.refs[TargetOf(n)][1] = Calls[n].r
    /\ Calls[n].was.content._block = TargetOf(n)

\* A Ref item was deleted whose target has another item as referrer.
C27_NotReferrerDeleted ==
  \E n \in DOMAIN Calls :
    /\ RefDeletion(n) /\ TargetOf(n) \in DOMAIN Calls[n].pre.refs
    /\ Calls[n].pre.refs[TargetOf(n)][1] \notin {Calls[n].r, NullRef}
\* Call d deleted a Ref item in store transaction i; the item had, or had
\* not, been integrated in the same store transaction.
DeletedIn(d, i) == RefDeletion(d) /\ Calls[d].cur = i

IntegratedIn(r, i, d) ==
  \E k \in 1..(d - 1) :
    Calls[k].f = "contentIntegrate" /\ Calls[k].r = r /\ Calls[k].cur = i

\* C28: after every call the blockRefsAdded and blockRefsRemoved of every
\* queued store transaction have no Ref in common; when the cleanup of a
\* store transaction starts, a Ref it integrated and deleted is in
\* neither set, and a Ref it deleted but had not integrated is in
\* blockRefsRemoved and not in blockRefsAdded.
C28_RefSetsDisjoint ==
  \A n \in DOMAIN Calls :
    /\ \A i \in DOMAIN Calls[n].post.sets :
         Range(Calls[n].post.sets[i][1]) \cap Range(Calls[n].post.sets[i][2]) = {}
    /\ Calls[n].f = "cleanupLoop" =>
         LET i == Calls[n].i
             A == Range(Calls[n].pre.sets[i][1])
             R == Range(Calls[n].pre.sets[i][2])
         IN \A d \in 1..(n - 1) :
              DeletedIn(d, i) =>
                IF IntegratedIn(Calls[d].r, i, d)
                THEN Calls[d].r \notin A \cup R
                ELSE Calls[d].r \in R \ A

\* The cleanup starts of a store transaction that integrated a Ref and
\* deleted it.
C28_Witness ==
  \E n \in DOMAIN Calls :
    /\ Calls[n].f = "cleanupLoop"
    /\ \E d \in 1..(n - 1) :
         DeletedIn(d, Calls[n].i) /\ IntegratedIn(Calls[d].r, Calls[n].i, d)

\* The cleanup starts of a store transaction that deleted a Ref of an
\* earlier one.
C28_EarlierRefDeleted ==
  \E n \in DOMAIN Calls :
    /\ Calls[n].f = "cleanupLoop"
    /\ \E d \in 1..(n - 1) :
         DeletedIn(d, Calls[n].i) /\ ~IntegratedIn(Calls[d].r, Calls[n].i, d)
\* The traced peer has applied the received updates in one store
\* transaction, the first of the queue, and drained the queue; FirstCleanup
\* is the call that began the cleanup of that transaction.
Batched ==
  /\ hist # <<>> /\ Last(hist)[2] = "deliverAll"
  /\ Drained(1)
  /\ \E n \in DOMAIN Calls : Calls[n].f = "cleanupLoop" /\ Calls[n].i = 1

FirstCleanup ==
  CHOOSE n \in DOMAIN Calls :
    /\ Calls[n].f = "cleanupLoop" /\ Calls[n].i = 1
    /\ \A m \in 1..(n - 1) : ~(Calls[m].f = "cleanupLoop" /\ Calls[m].i = 1)

\* The Refs the transaction added that survive, in the order of their
\* integration, and those of them that target block B.
Surviving == Calls[FirstCleanup].pre.sets[1][1]

\* The item r as the call that integrated its content left it.
Integrated(r) ==
  Calls[CHOOSE k \in DOMAIN Calls : Calls[k].f = "contentIntegrate" /\ Calls[k].r = r].item

RefsTo(B) == SelectSeq(Surviving, LAMBDA r : Integrated(r).content.blockId = B)

Losers(B) == IF RefsTo(B) = <<>> THEN {} ELSE Range(Tail(RefsTo(B)))

\* The block that the key of the deleted item r holds now.
Replacement(r) ==
  LET h == MapHead(store[1].blocks[r[1]], Integrated(r).parentSub)
  IN IF h # NullId /\ IsLiveRef(store[1], Ref(r[1], h))
     THEN GetItem(store[1], Ref(r[1], h)).content.blockId ELSE NoBlock

Lacks(u, bt) ==
  /\ \A c \in Clients : u.from[c] + Len(u.items[c]) <= bt.beforeState[c]
  /\ u.ds \cap bt.deleteSet = {}

\* The update u of a block has what the block transaction bt wrote.
Carries(u, bt) ==
  /\ \A c \in Clients :
       bt.afterState[c] > bt.beforeState[c] =>
         u.from[c] <= bt.beforeState[c] /\ u.from[c] + Len(u.items[c]) >= bt.afterState[c]
  /\ bt.deleteSet \subseteq u.ds

Wrote(bt) == bt.deleteSet # {} \/ bt.afterState # bt.beforeState

\* Call n ended the cleanup of store transaction i while the conflict
\* transaction j was queued behind it.
ConflictBehind(n, j) ==
  /\ Calls[n].f = "consumed"
  /\ j \in DOMAIN Calls[n].out.txs
  /\ j > Calls[n].i
  /\ Calls[n].out.txs[j].origin = "conflict"

ResolvedInMap ==
  last.kind = "resolve" /\ ~last.threw /\ ~last.hung =>
    IF last.deleted THEN store[1].blocks = last.was
    ELSE HoldsNewBlock(store[1], last.P, last.k, last.T, last.blocks0)

ResolvedInArray ==
  probe.p # 0 =>
    IF probe.was[probe.p].deleted THEN probe.arr = probe.was
    ELSE /\ probe.ok
         /\ ToArray(probe.arr)
              = [ToArray(probe.was) EXCEPT ![Offset(probe.was, probe.p) + 1] = CloneValue]

C31_ResolveReplacesInPlace == ResolvedInMap /\ ResolvedInArray

\* The parts of C31 that the code keeps: the map case, the deleted item,
\* and an array whose items left of the Ref hold one element each.
SingleLeft(arr, p) == \A i \in 1..(p - 1) : Len(arr[i].els) = 1

C31_ResolvedInArrayOfSingles ==
  probe.p # 0 /\ SingleLeft(probe.was, probe.p) => ResolvedInArray

C31_MapResolved == last.kind = "resolve" /\ ~last.deleted /\ ~last.threw /\ ~last.hung
C31_DeletedResolved == last.kind = "resolve" /\ last.deleted
C31_ArrayResolved ==
  probe.p # 0 /\ ~probe.was[probe.p].deleted /\ ~SingleLeft(probe.was, probe.p)
\* C32: cloning during conflict resolution makes a new block of the block
\* and of every block reached from it through live Refs: afterwards no Ref in
\* a block made by the clone targets a block that existed before, no
\* Ref to a block made by the clone was found in conflict, no such block
\* has two live Refs, and no block made after a conflict was found
\* refers back to the block that held the conflicting item.
ConflictCalls == {n \in DOMAIN Calls : Calls[n].f \in ConflictFns}
Existing == IF Calls = <<>> THEN DOMAIN store[1].blocks ELSE DOMAIN Calls[1].pre.refs
Made == DOMAIN store[1].blocks \ Existing
LiveRefsIn(B) == {r \in ItemsOf(store[1]) : r[1] \in B /\ IsLiveRef(store[1], r)}
TargetOfRef(r) == GetItem(store[1], r).content.blockId

CloneRefsOnlyNew == ConflictCalls # {} => \A r \in LiveRefsIn(Made) : TargetOfRef(r) \in Made

NoConflictOnInserted ==
  \A n \in ConflictCalls :
    Calls[n].was.content.kind = "ref" => Calls[n].was.content.blockId \in Existing

SingleRefToClone == \A B \in Made : Cardinality(LiveRefsTo(store[1], B)) <= 1

NoRefBackToHolder ==
  \A n \in ConflictCalls :
    \A r \in LiveRefsIn(DOMAIN store[1].blocks \ DOMAIN Calls[n].pre.refs) :
      TargetOfRef(r) # Calls[n].r[1]

CacheOf(st, r) == <<GetItem(st, r).content._block, GetItem(st, r).content._type>>

ReferrerLost(s, b) ==
  /\ b \in DOMAIN store[s].blocks
  /\ store[s].blocks[b]._referrer # NullRef
  /\ store'[s].blocks[b]._referrer # store[s].blocks[b]._referrer

LostReferrerCleared ==
  \A s \in Stores : \A b \in DOMAIN store[s].blocks :
    ReferrerLost(s, b) =>
      CacheOf(store'[s], store[s].blocks[b]._referrer) = <<NoBlock, NoBlock>>

CacheIsReferrer ==
  \A s \in Stores :
    Drained(s) =>
      \A r \in ItemsOf(store[s]) : \A B \in DOMAIN store[s].blocks :
        IsLiveRef(store[s], r) =>
          (GetItem(store[s], r).content._block = B <=> store[s].blocks[B]._referrer = r)

ReferrerChanged(n, b) ==
  /\ Calls[n].pre.refs[b][1] # NullRef
  /\ Calls[n].post.refs[b][1] # Calls[n].pre.refs[b][1]

PrevKept(n, b) == Calls[n].post.refs[b][2] = Calls[n].pre.refs[b][1]

C34_PrevReferrerKept ==
  \A n \in DOMAIN Calls : \A b \in DOMAIN Calls[n].pre.refs :
    ReferrerChanged(n, b) => PrevKept(n, b)

\* The part of C34 that the code keeps: the referrer was removed, not
\* replaced.
C34_PrevKeptOnRemoval ==
  \A n \in DOMAIN Calls : \A b \in DOMAIN Calls[n].pre.refs :
    ReferrerChanged(n, b) /\ Calls[n].post.refs[b][1] = NullRef => PrevKept(n, b)

C34_Removed ==
  \E n \in DOMAIN Calls : \E b \in DOMAIN Calls[n].pre.refs :
    ReferrerChanged(n, b) /\ Calls[n].post.refs[b][1] = NullRef

C34_Replaced ==
  \E n \in DOMAIN Calls : \E b \in DOMAIN Calls[n].pre.refs :
    ReferrerChanged(n, b) /\ Calls[n].post.refs[b][1] # NullRef
\* C35: the cleanup of a transaction replaces the content of an item only
\* if the gc flag of the block is set, the item is in the delete set of the
\* transaction, is deleted, has keep = false and the gcFilter of the block
\* accepts it; with gc = false, keep = true or a rejecting filter the item
\* keeps its content.
Collected(i) == probe.gcd[i].content # probe.pre[i].content

C35_GcOnlyWhenAllowed ==
  /\ Len(probe.gcd) = Len(probe.pre)
  /\ \A i \in DOMAIN probe.pre :
       /\ Collected(i) =>
            /\ probe.gc
            /\ InDeleteSet(probe.ds, probe.pre[i])
            /\ probe.pre[i].deleted /\ ~probe.pre[i].keep
            /\ probe.pre[i].clock \notin probe.reject
       /\ ~probe.gc \/ probe.pre[i].keep \/ probe.pre[i].clock \in probe.reject
            => probe.gcd[i] = probe.pre[i]

\* With gc set, one deleted item was collected and another, kept, rejected
\* by the filter or deleted by an earlier transaction, was not.
C35_Witness ==
  /\ probe.gc
  /\ \E i \in DOMAIN probe.pre : Collected(i)
  /\ \E i \in DOMAIN probe.pre :
       /\ probe.pre[i].deleted /\ ~probe.pre[i].gc /\ probe.pre[i].content # "deleted"
       /\ ~Collected(i)
       /\ probe.pre[i].keep \/ probe.pre[i].clock \in probe.reject
            \/ ~InDeleteSet(probe.ds, probe.pre[i])

C35_EarlierDeletionStays ==
  /\ probe.gc
  /\ \E i \in DOMAIN probe.pre :
       /\ probe.pre[i].deleted /\ ~probe.pre[i].gc /\ probe.pre[i].content # "deleted"
       /\ ~probe.pre[i].keep /\ probe.pre[i].clock \notin probe.reject
       /\ ~InDeleteSet(probe.ds, probe.pre[i])
\* C36: getOrCreateBlock(id, type) returns the block registered under id
\* when there is one and replaces no registry entry; otherwise it makes a
\* regular block with that id and registers it.  Every key k of
\* store.blocks maps to a block whose id is k, and a repeated call with the
\* same id returns the same block.
GotOrCreated ==
  probe.call = "getOrCreateBlock" =>
    IF probe.arg \in DOMAIN probe.was
    THEN probe.blocks = probe.was /\ probe.ret = probe.was[probe.arg]
    ELSE /\ probe.ret.id = probe.arg /\ ~probe.ret.isRoot /\ probe.ret.blockType = probe.type
         /\ \A k \in DOMAIN probe.was : probe.ret.serial # probe.was[k].serial
         /\ DOMAIN probe.blocks = DOMAIN probe.was \cup {probe.arg}
         /\ probe.blocks[probe.arg] = probe.ret
         /\ \A k \in DOMAIN probe.was : probe.blocks[k] = probe.was[k]

KeysAreIds == \A k \in DOMAIN probe.blocks : probe.blocks[k].id = k

RepeatedCallSameBlock ==
  /\ probe.call = "getOrCreateBlock"
  /\ probe'.call = "getOrCreateBlock"
  /\ probe'.arg = probe.arg
  => probe'.ret = probe.ret

C36_GetOrCreateBlock == [](GotOrCreated /\ KeysAreIds) /\ [][RepeatedCallSameBlock]_vars

\* getOrCreateBlock has returned a registered block whose type is not the
\* type asked for, after it had made a block for another id.
C36_Witness ==
  /\ probe.call = "getOrCreateBlock"
  /\ probe.arg \in DOMAIN probe.was
  /\ probe.ret.blockType # probe.type
  /\ \E k \in DOMAIN probe.blocks : k \in GivenIds /\ k # probe.arg
\* C37: a block of a store emits no 'update' or 'updateV2' event of its
\* own: the blocks it changed are in the updateV2 events of the store.  A
\* block without a store emits its 'update' and 'updateV2' once for every
\* transaction with content, and none for a transaction without.
StoreBlocksSilent ==
  (Returned(1) /\ store[1].queue = <<>>) =>
    LET L == store[1].log IN
    /\ \A n \in DOMAIN L : L[n].e \in {"update", "updateV2"} => L[n].b = NoBlock
    /\ \A n \in DOMAIN L : L[n].e = "afterTransactionCleanup" =>
         \E m \in DOMAIN L : m > n /\ L[m].e = "updateV2" /\ L[m].i = L[n].i

UpdatesOf(id, e) == {n \in DOMAIN probe.updates : probe.updates[n].id = id /\ probe.updates[n].e = e}

SoloBlockEmits ==
  probe._transaction = 0 =>
    \A id \in DOMAIN probe.created : \A e \in {"update", "updateV2"} :
      /\ Cardinality(UpdatesOf(id, e)) = IF probe.wrote[id] THEN 1 ELSE 0
      /\ \A n \in UpdatesOf(id, e) : probe.updates[n].origin = probe.created[id]

C37_BlockUpdatesOnlyWithoutStore == StoreBlocksSilent /\ SoloBlockEmits

\* The store has cleaned up a transaction that changed a block; the block
\* without store has cleaned up a transaction with content and one without.
C37_Witness ==
  /\ Returned(1) /\ store[1].queue = <<>>
  /\ \E n \in DOMAIN store[1].log :
       store[1].log[n].e = "updateV2" /\ store[1].log[n].t # {}
  /\ probe._transaction = 0
  /\ \E id \in DOMAIN probe.created : probe.wrote[id] /\ UpdatesOf(id, "update") # {}
  /\ \E id \in DOMAIN probe.created : ~probe.wrote[id]
\* C38: every Transaction of a block has the origin and the local flag of
\* the store transaction it belongs to, whatever the transact call that
\* made it asked for.  An update applied inside a local store transaction
\* is integrated as local: a Ref to a block that has a referrer goes to
\* resolveRefConflict at once and leaves the referrer alone, and the
\* deletion of a Ref appends an Unref.
FlagsOfStoreTransaction(n) ==
  /\ Calls[n].local = Calls[n].txlocal
  /\ Calls[n].f = "consumed" =>
       \A j \in DOMAIN Calls[n].out.txs :
         LET tx == Calls[n].out.txs[j] IN
         \A k \in DOMAIN tx.bts : tx.bts[k].origin = tx.origin /\ tx.bts[k].local = tx.local

RefToTaken(n) ==
  /\ Calls[n].f = "contentIntegrate"
  /\ Calls[n].was.content.kind = "ref"
  /\ LET T == Calls[n].was.content.blockId IN
     /\ T \in DOMAIN Calls[n].pre.refs
     /\ Calls[n].pre.refs[T][1] \notin {NullRef, Calls[n].r}

LiveRefDeleted(n) ==
  /\ Calls[n].f = "delete"
  /\ Calls[n].was.content.kind = "ref"
  /\ ~Calls[n].was.deleted

IntegratedAsLocal(n) ==
  /\ RefToTaken(n) =>
       /\ Calls[n].post.refs[Calls[n].was.content.blockId]
            = Calls[n].pre.refs[Calls[n].was.content.blockId]
       /\ n < Len(Calls) /\ Calls[n + 1].f = "resolveRefConflict" /\ Calls[n + 1].r = Calls[n].r
  /\ LiveRefDeleted(n) =>
       \E m \in DOMAIN Calls : m > n /\ Calls[m].f = "addUnref" /\ Calls[m].r = Calls[n].r

C38_NestedFlagsIgnored ==
  \A n \in DOMAIN Calls :
    /\ FlagsOfStoreTransaction(n)
    /\ (last.kind = "applyInside" /\ Calls[n].cur = 1) => IntegratedAsLocal(n)

\* An update applied inside a local transaction brought a Ref to a block
\* that had a referrer, and one deleted a live Ref.
C38_Witness ==
  /\ last.kind = "applyInside"
  /\ \E n \in DOMAIN Calls : Calls[n].cur = 1 /\ RefToTaken(n)

C38_UnrefWitness ==
  /\ last.kind = "applyInside"
  /\ \E n \in DOMAIN Calls : Calls[n].cur = 1 /\ LiveRefDeleted(n)
\* C39: once an outermost transact call on a store has exited, with or
\* without an exception, store._transaction is null and the cleanup queue
\* of the store is empty.
Exited(s) == depth[s] = 0 /\ store[s].stack = <<>> /\ store[s].ctl # "hung"

C39_QueueEmptyAfterExit ==
  \A s \in Stores : Exited(s) => store[s].cur = 0 /\ store[s].queue = <<>>

\* The next outermost call after a handler threw: its transaction is
\* queued behind the one left over, and no cleanup ran for it.
C39_NoCleanupAfterThrow ==
  /\ Exited(1) /\ Len(store[1].queue) > 1
  /\ last.kind = "set" /\ last.depth = 0
  /\ \A n \in DOMAIN store[1].log : store[1].log[n].e = "beforeTransaction"
\* C40: every outermost transact call comes to an end with the queue of
\* the store cleaned up, and every walk along the referrers of a block
\* (validateCircularRef, getRootBlock) reaches the end of the chain.
C40_TransactAndWalksEnd ==
  /\ \A s \in Stores : store[s].ctl # "hung"
  /\ \A s \in Stores : Returned(s) => store[s].queue = <<>>
  /\ ~probe.threw

\* getRootBlock was called on a block whose referrers form a cycle.
OnCycle(s, b) == WalkReferrers(store[s], b, NoBlock, CallDepth(store[s])) = "loop"

C40_WalkOnCycle == probe.s # 0 /\ probe.threw /\ OnCycle(probe.s, probe.b)
====
